---- MODULE Spec2Model ----
(***************************************************************************)
(* A model of lazycluster's manager process: RuntimeTask (composition,     *)
(* deep copy, execution over a connection, function returns), Runtime      *)
(* (working directory, environment variables, task dispatch, child         *)
(* processes, cleanup) and RuntimeGroup (dispatch, broadcast, join).       *)
(*                                                                         *)
(* Python objects live in heaps (sequences indexed by object id), so that  *)
(* two references to one object (a dict handed to two runtimes, a step     *)
(* shared by a task and its copy) stay one object in the model.            *)
(* Strings that the code takes apart (paths) are sequences of characters.  *)
(***************************************************************************)
EXTENDS Integers, Sequences, FiniteSets, TLC

VARIABLES
  mem,      \* the manager process's memory: class attributes and object heaps
  fs,       \* the manager's file system: temp dirs, pickle files, log files
  remote,   \* the remote hosts: directories that exist on each of them
  procs,    \* the child processes the manager has spawned
  ex,       \* the RuntimeTask.execute call in progress on a connection
  gen,      \* the function_returns generators handed out
  call      \* the last API call: what was asked, what it returned or raised

vars == <<mem, fs, remote, procs, ex, gen, call>>

----------------------------------------------------------------------------
(* Bounds of the model *)

MaxSteps == 3       \* steps composed on one task
MaxRuntimes == 2    \* runtimes in a group
MaxUserDicts == 1   \* dict objects the user creates and hands to the library
MaxDispatches == 1  \* tasks dispatched to one runtime
MaxCalls == 1       \* dispatch calls made on the group
MaxListLen == 3     \* ports in a port list
MaxCopies == 2           \* deep copies made of the task and of its copies
MaxClusterCalls == 2 \* calls made on the cluster

----------------------------------------------------------------------------
(* Python values.  An absent value (None) is the empty value of its type: *)
(* the code tests all of them with `if not x`.                             *)

NoPath == <<>>                  \* None or "" where a path or a name is expected
NoProcess == 0                  \* None where a process is expected
NoCommand == [kind |-> "none", id |-> "", a |-> <<>>, b |-> <<>>]
NoError == [type |-> "None"]
EmptyDict == <<>>               \* {}

Digit(d) ==
  CASE d = 0 -> "0" [] d = 1 -> "1" [] d = 2 -> "2" [] d = 3 -> "3"
    [] d = 4 -> "4" [] d = 5 -> "5" [] d = 6 -> "6" [] d = 7 -> "7"
    [] d = 8 -> "8" [] d = 9 -> "9"

RECURSIVE Str(_)
\* str(n) for n >= 0: the decimal digits
Str(n) == IF n < 10 THEN <<Digit(n)>> ELSE Str(n \div 10) \o <<Digit(n % 10)>>

\* s.startswith(p)
StartsWith(s, p) == Len(s) >= Len(p) /\ SubSeq(s, 1, Len(p)) = p

\* s[2:]
Slice2(s) == SubSeq(s, 3, Len(s))

\* the index of the last "/" of p, 0 when there is none
LastSlash(p) ==
  LET at == {k \in 1..Len(p) : p[k] = "/"}
  IN IF at = {} THEN 0 ELSE CHOOSE k \in at : \A l \in at : l <= k

\* os.path.split(p)[1]
PathTail(p) == SubSeq(p, LastSlash(p) + 1, Len(p))

\* os.path.join(a, b)
PathJoin(a, b) ==
  IF StartsWith(b, <<"/">>) THEN b
  ELSE IF a = <<>> \/ a[Len(a)] = "/" THEN a \o b
  ELSE a \o <<"/">> \o b

\* the elements of a sequence
Range(s) == {s[k] : k \in 1..Len(s)}

IsPrefix(s, t) == Len(s) <= Len(t) /\ SubSeq(t, 1, Len(s)) = s

----------------------------------------------------------------------------
(* RuntimeTask._TaskStep *)

TYPE_RUN_COMMAND == "command"
TYPE_SEND_FILE == "send-file"
TYPE_GET_FILE == "get-file"
TYPE_RUN_FUNCTION == "function"

\* _TaskStep.__init__: an absent path is stored as the empty string
TaskStep(step_type, local_path, remote_path, command, function_steps, function) ==
  [type |-> step_type,
   local_path |-> local_path,
   remote_path |-> remote_path,
   command |-> command,
   function |-> function,
   function_steps |-> function_steps]

create_get_file_instance(remote_path, local_path) ==
  TaskStep(TYPE_GET_FILE, local_path, remote_path, NoCommand, <<>>, NoPath)

create_send_file_instance(local_path, remote_path) ==
  TaskStep(TYPE_SEND_FILE, local_path, remote_path, NoCommand, <<>>, NoPath)

create_run_command_instance(command) ==
  TaskStep(TYPE_RUN_COMMAND, NoPath, NoPath, command, <<>>, NoPath)

create_run_function_instance(step_ids, function) ==
  TaskStep(TYPE_RUN_FUNCTION, NoPath, NoPath, NoCommand, step_ids, function)

----------------------------------------------------------------------------
(* The world a handler runs in: the manager's memory and file system, the  *)
(* remote hosts and the child processes.  A handler is an operator from    *)
(* world to world; w.raised holds the exception it raised, w.ret what it   *)
(* returned.                                                               *)

World == [mem |-> mem, fs |-> fs, remote |-> remote, procs |-> procs,
          raised |-> NoError, ret |-> 0]

Commit(w) ==
  /\ mem' = w.mem
  /\ fs' = w.fs
  /\ remote' = w.remote
  /\ procs' = w.procs

\* sequencing: v is computed once, then Rest is applied to its value
Bind(v, Rest(_)) == CHOOSE y \in {Rest(x) : x \in {v}} : TRUE

\* allocate an object on a heap: the id of the new object is its position
NewId(heap) == Len(heap) + 1

\* shell commands, kept as what they are made of
Cmd(kind, id, a, b) == [kind |-> kind, id |-> id, a |-> a, b |-> b]

----------------------------------------------------------------------------
(* RuntimeTask: construction and composition *)

s_local == <<"l", "o", "c", "a", "l", "_">>
s_return == <<"r", "e", "t", "u", "r", "n", "_">>
s_remote == <<"r", "e", "m", "o", "t", "e", "_">>
FUNCTION_PREFIX == <<"f", "u", "n", "c">>
PICKLE_FILENAME_EXT == <<"p", "k", "l">>

\* RuntimeTask.__init__(name)
RuntimeTask(w, name) ==
  LET t == NewId(w.mem.tasks)
      d == NewId(w.mem.dicts)
  IN [w EXCEPT
        !.mem.dicts = Append(@, EmptyDict),
        !.mem.tasks = Append(@,
           [name |-> name,
            task_steps |-> <<>>,
            execution_log |-> <<>>,
            managed_list |-> NoProcess,
            execution_log_file_path |-> NoPath,
            function_return_pkl_paths |-> <<>>,
            process |-> NoProcess,
            omit_on_join |-> FALSE,
            env_variables |-> d,
            temp_dir |-> NoPath,
            copy_index |-> 0]),
        !.ret = t]

\* append a new step object to the task's step list
AppendStep(w, t, step) ==
  [w EXCEPT !.mem.steps = Append(@, step),
            !.mem.tasks[t].task_steps = Append(@, NewId(w.mem.steps)),
            !.ret = t]

send_file(w, t, local_path, remote_path) ==
  AppendStep(w, t, create_send_file_instance(local_path, remote_path))

get_file(w, t, remote_path, local_path) ==
  AppendStep(w, t, create_get_file_instance(remote_path, local_path))

run_command(w, t, command) ==
  AppendStep(w, t, create_run_command_instance(command))

\* RuntimeTask._create_file_name with the class counter already incremented
create_file_name(function_name, function_index) ==
  (IF function_name # NoPath THEN function_name ELSE FUNCTION_PREFIX)
    \o Str(function_index) \o <<".">> \o PICKLE_FILENAME_EXT

\* tempfile.mkdtemp(): a directory no earlier call returned
mkdtemp(n) == <<"/", "T">> \o Str(n)

\* RuntimeTask.run_function(function); a function is known by its __name__
run_function(w, t, function) ==
  LET task == w.mem.tasks[t]
      fresh == task.temp_dir = NoPath
      temp_dir == IF fresh THEN mkdtemp(w.fs.mkdtemp + 1) ELSE task.temp_dir
      function_index == w.mem.function_index + 1
      remote_file_name == create_file_name(function, function_index)
      local_file_name == s_local \o remote_file_name
      local_pickle_file_path == PathJoin(temp_dir, local_file_name)
      remote_pickle_file_path == PathJoin(<<".">>, remote_file_name)
      local_return_file_name == s_return \o remote_file_name
      remote_return_file_name == s_remote \o local_return_file_name
      local_return_pickle_file_path == PathJoin(temp_dir, local_return_file_name)
      remote_return_pickle_file_path == PathJoin(<<".">>, remote_return_file_name)
      sub == << create_send_file_instance(local_pickle_file_path, remote_pickle_file_path),
                create_run_command_instance(Cmd("pip install", "", <<>>, <<>>)),
                create_run_command_instance(
                   Cmd("python3 -c", "", remote_pickle_file_path, remote_return_pickle_file_path)),
                create_run_command_instance(Cmd("rm", "", remote_pickle_file_path, <<>>)),
                create_get_file_instance(remote_return_pickle_file_path,
                                         local_return_pickle_file_path),
                create_run_command_instance(Cmd("rm", "", remote_return_pickle_file_path, <<>>)) >>
      base == Len(w.mem.steps)
      ids == [k \in 1..Len(sub) |-> base + k]
  IN [w EXCEPT
        !.fs.mkdtemp = IF fresh THEN @ + 1 ELSE @,
        !.fs.dirs = @ \cup {temp_dir},
        !.fs.files = (local_pickle_file_path :> [pickled |-> function, on |-> <<>>]) @@ @,
        !.mem.function_index = function_index,
        !.mem.steps = @ \o sub \o <<create_run_function_instance(ids, function)>>,
        !.mem.tasks[t] = [@ EXCEPT
            !.temp_dir = temp_dir,
            !.task_steps = Append(@, base + Len(sub) + 1),
            !.function_return_pkl_paths = Append(@, local_return_pickle_file_path)],
        !.ret = t]

RECURSIVE CopySteps(_, _, _, _)
\* the loop of __deepcopy__ over the original's steps, from position k on
CopySteps(w, t, copied, k) ==
  IF k > Len(w.mem.tasks[t].task_steps) THEN w
  ELSE LET sid == w.mem.tasks[t].task_steps[k]
           step == w.mem.steps[sid]
       IN Bind(IF step.type # TYPE_RUN_FUNCTION
               THEN [w EXCEPT !.mem.tasks[copied].task_steps = Append(@, sid)]
               ELSE IF step.function # NoPath
               THEN run_function(w, copied, step.function)
               ELSE w,
               LAMBDA w1 : CopySteps(w1, t, copied, k + 1))

\* a copy that takes over the step objects and the return paths of the original
deepcopy_sharing_steps(w, t) ==
  LET copy_index == w.mem.tasks[t].copy_index + 1
      new_name == w.mem.tasks[t].name \o <<"-">> \o Str(copy_index)
  IN Bind(RuntimeTask([w EXCEPT !.mem.tasks[t].copy_index = copy_index], new_name),
          LAMBDA w1 :
            [w1 EXCEPT
               !.mem.tasks[w1.ret].task_steps = w1.mem.tasks[t].task_steps,
               !.mem.tasks[w1.ret].function_return_pkl_paths =
                   w1.mem.tasks[t].function_return_pkl_paths,
               !.mem.tasks[w1.ret].temp_dir = w1.mem.tasks[t].temp_dir,
               !.mem.tasks[w1.ret].env_variables = w1.mem.tasks[t].env_variables,
               !.mem.tasks[w1.ret].omit_on_join = w1.mem.tasks[t].omit_on_join])

\* RuntimeTask.__deepcopy__: returns the id of the copy
deepcopy(w, t) ==
  LET copy_index == w.mem.tasks[t].copy_index + 1
      new_name == w.mem.tasks[t].name \o <<"-">> \o Str(copy_index)
  IN Bind(RuntimeTask([w EXCEPT !.mem.tasks[t].copy_index = copy_index], new_name),
          LAMBDA w1 :
            Bind(CopySteps(w1, t, w1.ret, 1),
                 LAMBDA w2 :
                   [w2 EXCEPT
                      !.mem.tasks[w1.ret].env_variables = w2.mem.tasks[t].env_variables,
                      !.mem.tasks[w1.ret].omit_on_join = w2.mem.tasks[t].omit_on_join,
                      !.ret = w1.ret]))

\* shutil.rmtree(dir) on the manager
rmtree(f, dir) ==
  [f EXCEPT !.dirs = {d \in @ : ~StartsWith(d, dir)},
            !.files = [p \in {q \in DOMAIN @ : ~StartsWith(q, dir \o <<"/">>)} |-> @[p]]]

FileNotFoundError == [type |-> "FileNotFoundError"]

\* RuntimeTask.cleanup; shutil.rmtree raises if the directory is not there
task_cleanup(w, t) ==
  IF w.mem.tasks[t].temp_dir # NoPath
  THEN IF w.mem.tasks[t].temp_dir \in w.fs.dirs
       THEN [w EXCEPT !.fs = rmtree(@, w.mem.tasks[t].temp_dir),
                      !.mem.tasks[t].temp_dir = NoPath]
       ELSE [w EXCEPT !.raised = FileNotFoundError]
  ELSE w

----------------------------------------------------------------------------
(* RuntimeTask.execute(connection, debug).  An execution is a record e: the *)
(* loop position (i: the step of the task, j: the sub-step of a             *)
(* RUN_FUNCTION, 0 outside one), the local variables of execute, and the    *)
(* operations issued to the connection so far.  x = [w, e] is an execution  *)
(* together with the world it runs in.                                      *)

ExitCodes == {0, 3}

\* what a command prints on the host when it is run in the directory cwd with
\* the environment variables env
Stdout(command, host, cwd, env) == [of |-> command, on |-> host, cwd |-> cwd, env |-> env]

\* connection.run(command, env=self._env_variables) inside connection.cd(cwd)
connection_run(x, command) ==
  Stdout(command, x.e.host, x.e.working_dir, x.w.mem.dicts[x.w.mem.tasks[x.e.t].env_variables])

s_execution_log == <<"e", "x", "e", "c", "u", "t", "i", "o", "n", "_", "l", "o", "g">>
s_log == <<"l", "o", "g">>
main_directory == <<"/", "m", "/", "l", "a", "z", "y", "c", "l", "u", "s", "t", "e", "r">>

\* ExecutionFileLogUtil(host, taskname).file_path, created at second ts
LogFilePath(host, taskname, ts) ==
  PathJoin(PathJoin(PathJoin(main_directory, s_execution_log), host),
           taskname \o <<"_">> \o Str(ts) \o <<".">> \o s_log)

NoExecution ==
  [pc |-> "idle", t |-> 0, host |-> <<>>, debug |-> FALSE, working_dir |-> <<>>,
   i |-> 0, j |-> 0, task_step_index |-> 0, ops |-> <<>>, err |-> NoError,
   file_path |-> <<>>]

ConnOp(op, sid, command, local, remote_path, exited) ==
  [op |-> op, step |-> sid, command |-> command, local |-> local,
   remote |-> remote_path, exited |-> exited]

RECURSIVE Enter(_)
\* the head of the loop over self._task_steps: skip a RUN_FUNCTION step without
\* function, enter the sub-steps of one with, finish after the last step
Enter(x) ==
  LET ts == x.w.mem.tasks[x.e.t].task_steps IN
  IF x.e.i > Len(ts) THEN [x EXCEPT !.e.pc = "done", !.e.j = 0]
  ELSE LET step == x.w.mem.steps[ts[x.e.i]] IN
       IF step.type # TYPE_RUN_FUNCTION THEN [x EXCEPT !.e.j = 0]
       ELSE IF step.function = NoPath \/ step.function_steps = <<>>
       THEN Enter([x EXCEPT !.e.i = @ + 1])
       ELSE [x EXCEPT !.e.j = 1]

\* the first lines of execute: the log file path is allocated and recorded on
\* the task, the connection is asked for its current directory
execute_begin(w, t, host, cwd, debug, ts) ==
  LET path == LogFilePath(host, w.mem.tasks[t].name, ts)
  IN Enter([w |-> [w EXCEPT !.mem.tasks[t].execution_log_file_path = path],
            e |-> [NoExecution EXCEPT
                     !.pc = "running", !.t = t, !.host = host, !.debug = debug,
                     !.working_dir = cwd, !.i = 1, !.file_path = path,
                     !.ops = <<ConnOp("run", 0, Cmd("pwd", "", <<>>, <<>>), <<>>, <<>>, 0)>>]])

\* open(file_path, "a" | "w+") and the command's output written to it
WriteLog(f, path, host, out) ==
  [f EXCEPT !.files =
     IF path \in DOMAIN @
     THEN [@ EXCEPT ![path].data = Append(@, out)]
     ELSE (path :> [kind |-> "log", data |-> <<out>>, on |-> host]) @@ @]

TaskExecutionError(task_step_index, t, host, execution_log_file_path, output) ==
  [type |-> "TaskExecutionError", task_step_index |-> task_step_index, task |-> t,
   host |-> host, execution_log_file_path |-> execution_log_file_path,
   output |-> output]

\* a run-command step that appends the output and goes on whatever the exit code
execute_run_command_step_ignoring_exit(x, sid, exited) ==
  LET step == x.w.mem.steps[sid]
      stdout == connection_run(x, step.command)
  IN [x EXCEPT
        !.w.fs = IF x.e.debug THEN @ ELSE WriteLog(@, x.e.file_path, x.e.host, stdout),
        !.w.mem.tasks[x.e.t].execution_log = Append(@, stdout),
        !.e.ops = Append(@, ConnOp("run", sid, step.command, <<>>, <<>>, exited))]

\* RuntimeTask._execute_run_command_step
execute_run_command_step(x, sid, exited) ==
  LET e == x.e
      step == x.w.mem.steps[sid]
      stdout == connection_run(x, step.command)
      x1 == [x EXCEPT
               !.w.fs = IF e.debug THEN @ ELSE WriteLog(@, e.file_path, e.host, stdout),
               !.w.mem.tasks[e.t].execution_log = Append(@, stdout),
               !.e.ops = Append(@, ConnOp("run", sid, step.command, <<>>, <<>>, exited))]
  IN IF exited # 0
     THEN [x1 EXCEPT !.e.pc = "raised",
                     !.e.err = TaskExecutionError(e.task_step_index, e.t, e.host,
                                                  e.file_path, stdout)]
     ELSE x1

\* RuntimeTask._execute_send_file
execute_send_file(x, sid) ==
  LET step == x.w.mem.steps[sid]
      working_dir == x.e.working_dir
      remote_path ==
        IF step.remote_path = NoPath
        THEN PathJoin(working_dir, PathTail(step.local_path))
        ELSE IF StartsWith(step.remote_path, <<".">>)
        THEN PathJoin(working_dir, Slice2(step.remote_path))
        ELSE step.remote_path
  IN [x EXCEPT
        !.w.mem.steps[sid].remote_path = remote_path,
        !.e.ops = Append(@, ConnOp("put", sid, NoCommand, step.local_path, remote_path, 0))]

\* the manager's current directory, where fabric puts a file got without local path
manager_cwd == <<"/", "m">>

\* RuntimeTask._execute_get_file
execute_get_file(x, sid) ==
  LET step == x.w.mem.steps[sid]
      working_dir == x.e.working_dir
      remote_path ==
        IF ~StartsWith(step.remote_path, <<"/">>)
        THEN PathJoin(working_dir, PathTail(step.remote_path))
        ELSE IF StartsWith(step.remote_path, <<".">>)
        THEN PathJoin(working_dir, Slice2(step.remote_path))
        ELSE step.remote_path
      local == IF step.local_path = NoPath
               THEN PathJoin(manager_cwd, PathTail(remote_path))
               ELSE step.local_path
  IN [x EXCEPT
        !.w.mem.steps[sid].remote_path = remote_path,
        !.w.fs.files = (local :> [kind |-> "got", data |-> remote_path, on |-> x.e.host]) @@ @,
        !.e.ops = Append(@, ConnOp("get", sid, NoCommand, step.local_path, remote_path, 0))]

\* one elementary step, as dispatched on its type in the loop of execute
execute_elementary(x, sid, exited) ==
  LET type == x.w.mem.steps[sid].type IN
  IF type = TYPE_RUN_COMMAND THEN execute_run_command_step(x, sid, exited)
  ELSE IF type = TYPE_SEND_FILE THEN execute_send_file(x, sid)
  ELSE IF type = TYPE_GET_FILE THEN execute_get_file(x, sid)
  ELSE x

\* the step the loop is about to execute
CurrentStep(x) ==
  LET sid == x.w.mem.tasks[x.e.t].task_steps[x.e.i] IN
  IF x.e.j = 0 THEN sid ELSE x.w.mem.steps[sid].function_steps[x.e.j]

\* task_step_index after an elementary step of the task's own list
index_after_elementary(task_step_index) == task_step_index + 1

\* task_step_index after the last sub-step of a RUN_FUNCTION step
index_after_function(task_step_index) == task_step_index

\* one pass of the loop body of execute: the current (sub-)step is executed and
\* the loop moves on; a raised TaskExecutionError leaves the loop
execute_step(x, exited) ==
  LET sid == CurrentStep(x)
      outer == x.w.mem.steps[x.w.mem.tasks[x.e.t].task_steps[x.e.i]]
  IN Bind(execute_elementary(x, sid, exited), LAMBDA x1 :
     IF x1.e.pc = "raised" THEN x1
     ELSE IF x.e.j = 0
     THEN Bind([x1 EXCEPT !.e.task_step_index = index_after_elementary(@),
                          !.e.i = @ + 1], Enter)
     ELSE IF x.e.j < Len(outer.function_steps)
     THEN [x1 EXCEPT !.e.j = @ + 1]
     ELSE Bind([x1 EXCEPT !.e.task_step_index = index_after_function(@),
                          !.e.i = @ + 1], Enter))

\* whether the step about to be executed runs a command
NextIsCommand(x) ==
  x.e.pc = "running" /\ x.w.mem.steps[CurrentStep(x)].type = TYPE_RUN_COMMAND

RECURSIVE execute_all(_, _)
\* execute to its end; the fail_at-th command run exits non-zero (0: none does)
execute_all(x, fail_at) ==
  IF x.e.pc # "running" THEN x
  ELSE LET ran == Cardinality({k \in 2..Len(x.e.ops) : x.e.ops[k].op = "run"})
           exited == IF NextIsCommand(x) /\ ran + 1 = fail_at THEN 3 ELSE 0
       IN Bind(execute_step(x, exited), LAMBDA x1 : execute_all(x1, fail_at))

----------------------------------------------------------------------------
(* The state after the library is imported: nothing constructed yet *)

Memory0 ==
  [function_index |-> 0,        \* RuntimeTask._function_index
   steps |-> <<>>,              \* the _TaskStep objects
   tasks |-> <<>>,              \* the RuntimeTask objects
   dicts |-> <<>>,              \* the dict objects holding env variables
   runtimes |-> <<>>,           \* the Runtime objects
   group |-> [runtimes |-> <<>>, tasks |-> <<>>, proc_keys |-> <<>>]]

FileSystem0 == [mkdtemp |-> 0, dirs |-> {}, files |-> <<>>]

World0 == [mem |-> Memory0, fs |-> FileSystem0, remote |-> <<>>, procs |-> <<>>,
           raised |-> NoError, ret |-> 0]

\* no API call has just returned; n counts the dispatch calls made so far
NoCallAfter(n) == [op |-> "none", n |-> n]

NoCall == NoCallAfter(0)

----------------------------------------------------------------------------
(* SpecTask: one task is composed step by step and then executed on a      *)
(* connection, one connection operation at a time.                         *)

UserCommands == {Cmd("user", "c1", <<>>, <<>>)}
UserFunctions == {<<"f">>}
LocalPaths == {<<"/", "m", "/", "a">>}
SendRemotePaths == {<<>>, <<".", "/", "a">>}
GetRemotePaths == {<<"a">>, <<"/", "a">>}
ConnectionHosts == {<<"h", "1">>}
ConnectionDirs == {<<"/", "w">>}

\* the tasks the user constructs, by object id
T1 == 1
T2 == 2

TaskInit ==
  /\ mem = RuntimeTask(World0, <<"t">>).mem
  /\ fs = FileSystem0
  /\ remote = <<>>
  /\ procs = <<>>
  /\ ex = NoExecution
  /\ gen = <<>>
  /\ call = NoCall

CanCompose == ex.pc = "idle" /\ Len(mem.tasks[T1].task_steps) < MaxSteps

TaskRunCommand ==
  /\ CanCompose
  /\ \E c \in UserCommands : Commit(run_command(World, T1, c))
  /\ UNCHANGED <<ex, gen, call>>

TaskSendFile ==
  /\ CanCompose
  /\ \E l \in LocalPaths, r \in SendRemotePaths : Commit(send_file(World, T1, l, r))
  /\ UNCHANGED <<ex, gen, call>>

TaskGetFile ==
  /\ CanCompose
  /\ \E r \in GetRemotePaths, l \in LocalPaths \cup {NoPath} :
        Commit(get_file(World, T1, r, l))
  /\ UNCHANGED <<ex, gen, call>>

TaskRunFunction ==
  /\ CanCompose
  /\ \E f \in UserFunctions : Commit(run_function(World, T1, f))
  /\ UNCHANGED <<ex, gen, call>>

\* task.execute(connection, debug) is called
TaskExecute ==
  /\ ex.pc = "idle"
  /\ \E host \in ConnectionHosts, cwd \in ConnectionDirs, debug \in BOOLEAN :
        LET x == execute_begin(World, T1, host, cwd, debug, 0)
        IN Commit(x.w) /\ ex' = x.e
  /\ UNCHANGED <<gen, call>>

\* the connection answers the operation in flight and execute issues the next
TaskExecuteStep ==
  /\ ex.pc = "running"
  /\ \E exited \in ExitCodes :
        /\ exited # 0 => NextIsCommand([w |-> World, e |-> ex])
        /\ LET x == execute_step([w |-> World, e |-> ex], exited)
           IN Commit(x.w) /\ ex' = x.e
  /\ UNCHANGED <<gen, call>>

TaskNext ==
  \/ TaskRunCommand
  \/ TaskSendFile
  \/ TaskGetFile
  \/ TaskRunFunction
  \/ TaskExecute
  \/ TaskExecuteStep

SpecTask == TaskInit /\ [][TaskNext]_vars

----------------------------------------------------------------------------
(* Claims about RuntimeTask.execute, checked under SpecTask *)

RECURSIVE FlatSteps(_, _, _)
\* the step list of task t with each RUN_FUNCTION step replaced by its sub-steps
FlatSteps(m, t, k) ==
  IF k > Len(m.tasks[t].task_steps) THEN <<>>
  ELSE LET sid == m.tasks[t].task_steps[k]
       IN (IF m.steps[sid].type = TYPE_RUN_FUNCTION
           THEN m.steps[sid].function_steps ELSE <<sid>>)
          \o FlatSteps(m, t, k + 1)

\* the position (from 0) in the task's own step list of the step that issued
\* the last connection operation
FailedStepPosition ==
  LET sid == ex.ops[Len(ex.ops)].step
      ts == mem.tasks[ex.t].task_steps
  IN (CHOOSE p \in 1..Len(ts) :
        \/ ts[p] = sid
        \/ sid \in Range(mem.steps[ts[p]].function_steps)) - 1

\* C5: a raised TaskExecutionError carries the position, in the task's
\* user-visible step list, of the step that failed; every step before it counts
\* as one step, whether it is elementary or a RUN_FUNCTION.
C5_ErrorIndexIsStepPosition ==
  ex.pc = "raised" => ex.err.task_step_index = FailedStepPosition

\* the connection operation a step of the given type issues
OpOfType(type) ==
  CASE type = TYPE_RUN_COMMAND -> "run"
    [] type = TYPE_SEND_FILE -> "put"
    [] type = TYPE_GET_FILE -> "get"
    [] OTHER -> "none"

\* a RUN_FUNCTION step is: send wrapper, install serializer, invoke, rm wrapper,
\* get return, rm return
IsFunctionExpansion(m, sid) ==
  LET sub == m.steps[sid].function_steps
      st(k) == m.steps[sub[k]]
  IN /\ Len(sub) = 6
     /\ st(1).type = TYPE_SEND_FILE
     /\ st(2).type = TYPE_RUN_COMMAND /\ st(2).command.kind = "pip install"
     /\ st(3).type = TYPE_RUN_COMMAND /\ st(3).command.kind = "python3 -c"
     /\ st(4).type = TYPE_RUN_COMMAND /\ st(4).command.kind = "rm"
     /\ st(5).type = TYPE_GET_FILE
     /\ st(6).type = TYPE_RUN_COMMAND /\ st(6).command.kind = "rm"
     /\ st(4).command.a = st(3).command.a
     /\ st(6).command.a = st(3).command.b

\* C6: execute issues its operations to the connection in the order of the
\* flattened step list, stops at the first command that exits non-zero, and
\* the execution log holds the output of the commands run, in that order,
\* ending with the failing one.
C6_OperationsInStepOrder ==
  ex.pc # "idle" =>
    LET issued == [k \in 1..(Len(ex.ops) - 1) |-> ex.ops[k + 1].step]
        flat == FlatSteps(mem, ex.t, 1)
        runs == SelectSeq(Tail(ex.ops), LAMBDA o : o.op = "run")
    IN /\ IsPrefix(issued, flat)
       /\ ex.pc = "done" => issued = flat
       /\ ex.pc = "running" => Len(issued) < Len(flat)
       /\ \A k \in 2..Len(ex.ops) :
             /\ ex.ops[k].op = OpOfType(mem.steps[ex.ops[k].step].type)
             /\ ex.ops[k].exited # 0 => k = Len(ex.ops) /\ ex.pc = "raised"
       /\ ex.pc = "raised" =>
             /\ ex.ops[Len(ex.ops)].op = "run"
             /\ ex.ops[Len(ex.ops)].exited # 0
             /\ ex.err.output = Stdout(ex.ops[Len(ex.ops)].command, ex.host, ex.working_dir,
                                      mem.dicts[mem.tasks[ex.t].env_variables])
       /\ mem.tasks[ex.t].execution_log
            = [k \in 1..Len(runs) |-> Stdout(runs[k].command, ex.host, ex.working_dir,
                                              mem.dicts[mem.tasks[ex.t].env_variables])]
       /\ \A k \in 1..Len(mem.tasks[ex.t].task_steps) :
             LET sid == mem.tasks[ex.t].task_steps[k]
             IN mem.steps[sid].type = TYPE_RUN_FUNCTION => IsFunctionExpansion(mem, sid)

\* a task with a RUN_FUNCTION step and a later step, stopped by the failure of
\* a command after at least one other had run
C6_Witness ==
  /\ ex.pc = "raised"
  /\ Len(mem.tasks[ex.t].execution_log) >= 2
  /\ Len(ex.ops) - 1 < Len(FlatSteps(mem, ex.t, 1))
  /\ \E k \in 1..Len(mem.tasks[ex.t].task_steps) :
        mem.steps[mem.tasks[ex.t].task_steps[k]].type = TYPE_RUN_FUNCTION

\* C26: whenever an execution raises TaskExecutionError, the file at the
\* execution log file path the error reports exists on the manager and holds
\* the output of the failed command, with debug off and with debug on.
C26_ErrorReportsExistingLogFile ==
  ex.pc = "raised" =>
    /\ ex.err.execution_log_file_path \in DOMAIN fs.files
    /\ ex.err.output \in Range(fs.files[ex.err.execution_log_file_path].data)

\* C28: after a successful execution the execution log has exactly one entry
\* for each elementary step that was executed, commands and file transfers
\* alike, the sub-steps of a RUN_FUNCTION step counted each: entry i belongs to
\* the i-th of them.
C28_OneLogEntryPerElementaryStep ==
  ex.pc = "done" =>
    LET flat == FlatSteps(mem, ex.t, 1)
    IN /\ Len(mem.tasks[ex.t].execution_log) = Len(flat)
       /\ \A i \in 1..Len(flat) :
            mem.steps[flat[i]].type = TYPE_RUN_COMMAND =>
              /\ i <= Len(mem.tasks[ex.t].execution_log)
              /\ mem.tasks[ex.t].execution_log[i].of = mem.steps[flat[i]].command

----------------------------------------------------------------------------
(* Runtime: working directory, environment variables, directories on host  *)
(* w.remote[host] is the host's file system as far as the library uses it: *)
(* the directories that exist and the number of mkdtemp calls made there.  *)

WORKING_DIR_ENV_VAR_NAME == "WORKING_DIR"
PROCESS_KEY_DELIMITER == <<":", ":">>
TASK_PROCESS_KEY_PREFIX == <<"t", "a", "s", "k">>

\* d.update(other) on dict contents
DictUpdate(d, other) == other @@ d

\* the n-th directory tempfile.mkdtemp() makes on a host: a name of its own
tempdir(host, n) == <<"/", "t", "m", "p", "/">> \o host \o Str(n)

\* Runtime.create_tempdir: tempfile.mkdtemp() run on the host
create_tempdir(w, r) ==
  LET host == w.mem.runtimes[r].host
      n == w.remote[host].mkdtemp + 1
      path == tempdir(host, n)
  IN [w EXCEPT !.remote[host].mkdtemp = n,
               !.remote[host].dirs = @ \cup {path},
               !.ret = path]

\* Runtime.create_dir: mkdir -p path
create_dir(w, r, path) ==
  [w EXCEPT !.remote[w.mem.runtimes[r].host].dirs = @ \cup {path}]

\* Runtime.delete_dir: rm -r path; ok is whether rm succeeded
delete_dir(w, r, path, ok) ==
  [w EXCEPT !.remote[w.mem.runtimes[r].host].dirs =
                IF ok THEN {d \in @ : ~StartsWith(d, path)} ELSE @,
            !.ret = ok]

\* Runtime.working_dir (setter)
set_working_dir(w, r, working_dir) ==
  Bind(create_dir(w, r, working_dir),
       LAMBDA w1 :
         [w1 EXCEPT
            !.mem.runtimes[r].working_dir = working_dir,
            !.mem.runtimes[r].working_dir_is_temp = FALSE,
            !.mem.dicts[w1.mem.runtimes[r].env_variables] =
                DictUpdate(@, WORKING_DIR_ENV_VAR_NAME :> working_dir)])

\* a temporary directory is made whether or not the runtime has a working dir
create_working_dir_on_every_call(w, r) ==
  Bind(create_tempdir(w, r),
       LAMBDA w1 :
         Bind([w1 EXCEPT !.mem.runtimes[r].working_dir_is_temp = TRUE],
              LAMBDA w2 : set_working_dir(w2, r, w1.ret)))

\* Runtime._create_working_dir_if_not_exists
create_working_dir_if_not_exists(w, r) ==
  IF w.mem.runtimes[r].working_dir = NoPath
  THEN Bind(create_tempdir(w, r),
            LAMBDA w1 :
              Bind([w1 EXCEPT !.mem.runtimes[r].working_dir_is_temp = TRUE],
                   LAMBDA w2 : set_working_dir(w2, r, w1.ret)))
  ELSE w

\* Runtime.working_dir (getter)
get_working_dir(w, r) ==
  Bind(create_working_dir_if_not_exists(w, r),
       LAMBDA w1 : [w1 EXCEPT !.ret = w1.mem.runtimes[r].working_dir])

\* Runtime.__init__(host, working_dir)
Runtime(w, host, working_dir) ==
  LET r == NewId(w.mem.runtimes)
      d == NewId(w.mem.dicts)
  IN Bind([w EXCEPT
             !.mem.dicts = Append(@, EmptyDict),
             !.mem.runtimes = Append(@,
                [host |-> host,
                 env_variables |-> d,
                 working_dir_is_temp |-> FALSE,
                 working_dir |-> NoPath,
                 processes |-> <<>>,
                 tasks |-> <<>>])],
          LAMBDA w1 :
            [(IF working_dir # NoPath THEN set_working_dir(w1, r, working_dir) ELSE w1)
               EXCEPT !.ret = r])

AssertionError == [type |-> "AssertionError"]

\* Runtime.env_variables (setter); d is the dict object the caller passes
set_env_variables(w, r, d) ==
  Bind([w EXCEPT !.mem.runtimes[r].env_variables = d],
       LAMBDA w1 :
         IF WORKING_DIR_ENV_VAR_NAME \notin DOMAIN w1.mem.dicts[d]
         THEN IF w1.mem.runtimes[r].working_dir = NoPath
              THEN [w1 EXCEPT !.raised = AssertionError]
              ELSE [w1 EXCEPT !.mem.dicts[d] =
                      DictUpdate(@, WORKING_DIR_ENV_VAR_NAME :>
                                      w1.mem.runtimes[r].working_dir)]
         ELSE w1)

\* Runtime.add_env_variables; env_variables is the content of the dict passed
add_env_variables(w, r, env_variables) ==
  [w EXCEPT !.mem.dicts[w.mem.runtimes[r].env_variables] = DictUpdate(@, env_variables)]

\* a dict literal evaluated by the caller: a new dict object
NewDict(w, content) ==
  [w EXCEPT !.mem.dicts = Append(@, content), !.ret = NewId(w.mem.dicts)]

----------------------------------------------------------------------------
(* Child processes.  Runtime.execute_task(execute_async=True) starts a      *)
(* multiprocessing.Process: the child gets a copy of the manager's memory   *)
(* as it is at start() and shares the manager's file system and the manager *)
(* list that holds the execution log.  A process record keeps the child's   *)
(* memory while the child is alive.                                         *)

RECURSIVE Split(_, _)
\* s.split(delim)
Split(s, delim) ==
  LET at == {k \in 1..(Len(s) - Len(delim) + 1) : SubSeq(s, k, k + Len(delim) - 1) = delim}
  IN IF at = {} THEN <<s>>
     ELSE LET k == CHOOSE x \in at : \A y \in at : x <= y
          IN <<SubSeq(s, 1, k - 1)>> \o Split(SubSeq(s, k + Len(delim), Len(s)), delim)

\* Runtime._create_process_key_for_task_execution
create_process_key_for_task_execution(host, name) ==
  host \o PROCESS_KEY_DELIMITER \o TASK_PROCESS_KEY_PREFIX \o PROCESS_KEY_DELIMITER \o name

\* Runtime.is_runtime_task_process
is_runtime_task_process(process_key) ==
  Split(process_key, PROCESS_KEY_DELIMITER)[2] = TASK_PROCESS_KEY_PREFIX

\* Runtime.alive_task_process_count: len(self.task_processes)
alive_task_process_count(w, r) ==
  Cardinality({k \in DOMAIN w.mem.runtimes[r].processes : is_runtime_task_process(k)})

\* multiprocessing.Process(target=execute_remote_wrapper) of task t on runtime r
Process(child, r, t, debug) ==
  [status |-> "alive", exitcode |-> 0, runtime |-> r, task |-> t, debug |-> debug,
   child |-> child]

\* process.is_alive()
is_alive(w, p) == w.procs[p].status = "alive"

\* the directory in which a connection runs its commands when no cd is in force
home_directory == <<"~">>

\* a wrapper that calls task.execute on the connection as it is opened
execute_remote_wrapper_without_cd(w, r, t, debug, fail_at) ==
  Bind(execute_begin(w, t, w.mem.runtimes[r].host, home_directory, debug, 0),
       LAMBDA x : execute_all(x, fail_at))

\* execute_remote_wrapper of Runtime.execute_task: task.execute on a connection
\* whose current directory is the runtime's working dir
execute_remote_wrapper(w, r, t, debug, fail_at) ==
  Bind(execute_begin(w, t, w.mem.runtimes[r].host,
                     w.mem.runtimes[r].working_dir, debug, 0),
       LAMBDA x : execute_all(x, fail_at))

\* Runtime.execute_task(task, execute_async, omit_on_join, debug); the fail_at-th
\* command of a synchronous execution exits non-zero (0: none)
Runtime_execute_task(w, r, t, execute_async, omit_on_join, debug, fail_at) ==
  Bind(create_working_dir_if_not_exists(w, r), LAMBDA w1 :
  Bind([w1 EXCEPT !.mem.tasks[t].env_variables = w1.mem.runtimes[r].env_variables],
       LAMBDA w2 :
  IF execute_async
  THEN LET p == NewId(w2.procs) IN
       Bind([w2 EXCEPT !.mem.tasks[t].execution_log = <<>>,
                       !.mem.tasks[t].managed_list = p,
                       !.mem.tasks[t].omit_on_join = omit_on_join],
            LAMBDA w3 :
              LET key == create_process_key_for_task_execution(w3.mem.runtimes[r].host,
                                                               w3.mem.tasks[t].name)
              IN [w3 EXCEPT !.procs = Append(@, Process(w3.mem, r, t, debug)),
                            !.mem.runtimes[r].processes = (key :> p) @@ @,
                            !.mem.tasks[t].process = p,
                            !.mem.runtimes[r].tasks = Append(@, t)])
  ELSE Bind([w2 EXCEPT !.mem.tasks[t].execution_log = <<>>,
                       !.mem.tasks[t].managed_list = NoProcess],
            LAMBDA w3 :
              Bind(execute_remote_wrapper(w3, r, t, debug, fail_at),
                   LAMBDA x :
                     IF x.e.pc = "raised"
                     THEN [x.w EXCEPT !.raised = x.e.err]
                     ELSE [x.w EXCEPT !.mem.runtimes[r].tasks = Append(@, t)]))))

\* the child process p runs execute_remote_wrapper to its end and exits: its
\* writes to the file system and to the manager list reach the manager, its
\* writes to its own memory do not
process_run(w, p, fail_at) ==
  LET pr == w.procs[p] IN
  Bind(execute_remote_wrapper([w EXCEPT !.mem = pr.child], pr.runtime, pr.task,
                              pr.debug, fail_at),
       LAMBDA x :
         [w EXCEPT
            !.fs = x.w.fs,
            !.procs[p] = [@ EXCEPT !.status = "exited",
                                   !.exitcode = IF x.e.pc = "raised" THEN 1 ELSE 0,
                                   !.child = Memory0],
            !.mem.tasks = [k \in DOMAIN @ |->
                             IF @[k].managed_list = p
                             THEN [@[k] EXCEPT !.execution_log =
                                                  x.w.mem.tasks[pr.task].execution_log]
                             ELSE @[k]]])

\* process.terminate() followed by process.join()
terminate(w, pids) ==
  [w EXCEPT !.procs = [p \in DOMAIN @ |->
      IF p \in pids /\ @[p].status = "alive"
      THEN [@[p] EXCEPT !.status = "terminated", !.exitcode = -15, !.child = Memory0]
      ELSE @[p]]]

\* a join that returns at once whatever the process does
RuntimeTask_join_never_waits(w, t) == FALSE

\* RuntimeTask.join: whether the call waits in process.join()
RuntimeTask_join_waits(w, t) ==
  LET task == w.mem.tasks[t] IN
  IF task.omit_on_join /\ task.process # NoProcess THEN FALSE
  ELSE IF task.process = NoProcess THEN FALSE
  ELSE is_alive(w, task.process)

\* Runtime.join / RuntimeGroup.join over a task list: waits while a task's join does
join_waits(w, tasks) == \E k \in 1..Len(tasks) : RuntimeTask_join_waits(w, tasks[k])

\* the processes on which that join calls process.join()
joined_processes(w, tasks) ==
  {w.mem.tasks[tasks[k]].process : k \in {j \in 1..Len(tasks) :
      /\ w.mem.tasks[tasks[j]].process # NoProcess
      /\ ~w.mem.tasks[tasks[j]].omit_on_join}}

RECURSIVE cleanup_tasks(_, _, _)
\* for task in self._tasks: task.cleanup()
cleanup_tasks(w, tasks, k) ==
  IF k > Len(tasks) \/ w.raised # NoError THEN w
  ELSE Bind(task_cleanup(w, tasks[k]), LAMBDA w1 : cleanup_tasks(w1, tasks, k + 1))

\* Runtime.cleanup; ok is whether the remote rm succeeds if it is run
Runtime_cleanup(w, r, ok) ==
  LET rt == w.mem.runtimes[r] IN
  Bind(terminate(w, {rt.processes[k] : k \in DOMAIN rt.processes}), LAMBDA w1 :
  Bind(IF rt.working_dir_is_temp /\ rt.working_dir # NoPath
       THEN Bind(delete_dir(w1, r, rt.working_dir, ok),
                 LAMBDA w3 :
                   IF w3.ret
                   THEN [w3 EXCEPT !.mem.runtimes[r].working_dir = NoPath,
                                   !.mem.runtimes[r].working_dir_is_temp = FALSE]
                   ELSE w3)
       ELSE w1,
       LAMBDA w2 : cleanup_tasks(w2, rt.tasks, 1)))

----------------------------------------------------------------------------
(* RuntimeGroup.  self._runtimes is a dict keyed by host; the group is      *)
(* built from runtimes of distinct hosts, so the dict is the sequence of    *)
(* its runtimes in insertion order.                                         *)

INTERNAL_PORT_MIN == 5800
INTERNAL_PORT_MAX == 5999

\* RuntimeGroup.__init__(runtimes); _internal_port_range is the class's
\* range(_INTERNAL_PORT_MIN, _INTERNAL_PORT_MAX) until the group sets its own
RuntimeGroup(w, runtimes) ==
  [w EXCEPT !.mem.group =
     [runtimes |-> runtimes, tasks |-> <<>>, proc_keys |-> <<>>,
      internal_port_range |-> [start |-> INTERNAL_PORT_MIN, stop |-> INTERNAL_PORT_MAX]]]

RECURSIVE set_env_variables_loop(_, _, _)
\* for runtime in self._runtimes.values(): runtime.env_variables = env_variables
set_env_variables_loop(w, d, k) ==
  IF k > Len(w.mem.group.runtimes) \/ w.raised # NoError THEN w
  ELSE Bind(set_env_variables(w, w.mem.group.runtimes[k], d),
            LAMBDA w1 : set_env_variables_loop(w1, d, k + 1))

\* RuntimeGroup.set_env_variables; d is the dict object the caller passes
RuntimeGroup_set_env_variables(w, d) == set_env_variables_loop(w, d, 1)

RECURSIVE add_env_variables_loop(_, _, _)
add_env_variables_loop(w, env_variables, k) ==
  IF k > Len(w.mem.group.runtimes) THEN w
  ELSE Bind(add_env_variables(w, w.mem.group.runtimes[k], env_variables),
            LAMBDA w1 : add_env_variables_loop(w1, env_variables, k + 1))

\* RuntimeGroup.add_env_variables
RuntimeGroup_add_env_variables(w, env_variables) ==
  add_env_variables_loop(w, env_variables, 1)

RECURSIVE least_busy(_, _, _)
\* the loop of _get_least_busy_runtime; final_rt = 0 is None
least_busy(w, final_rt, k) ==
  LET rs == w.mem.group.runtimes IN
  IF k > Len(rs) THEN final_rt
  ELSE IF final_rt = 0 THEN least_busy(w, rs[k], k + 1)
  ELSE IF alive_task_process_count(w, rs[k]) < alive_task_process_count(w, final_rt)
  THEN least_busy(w, rs[k], k + 1)
  ELSE least_busy(w, final_rt, k + 1)

\* RuntimeGroup._get_least_busy_runtime
get_least_busy_runtime(w) == least_busy(w, 0, 1)

\* host in self._runtimes
contains_runtime(w, host) ==
  \E k \in 1..Len(w.mem.group.runtimes) : w.mem.runtimes[w.mem.group.runtimes[k]].host = host

\* RuntimeGroup.get_runtime(host)
get_runtime(w, host) ==
  CHOOSE r \in Range(w.mem.group.runtimes) : w.mem.runtimes[r].host = host

ValueError == [type |-> "ValueError"]

RECURSIVE broadcast_loop(_, _, _, _, _)
\* the loop of execute_task(broadcast=True) from the k-th runtime on; a holds the
\* arguments of the call, tasks the list built so far
broadcast_loop(w, a, k, tasks, needs_to_create_copy) ==
  IF k > Len(w.mem.group.runtimes) THEN [w EXCEPT !.ret = tasks]
  ELSE Bind(IF ~needs_to_create_copy THEN [w EXCEPT !.ret = a.task]
            ELSE deepcopy(w, a.task),
            LAMBDA w1 :
       LET current_task == w1.ret IN
       Bind(Runtime_execute_task(w1, w1.mem.group.runtimes[k], current_task,
                                 a.execute_async, a.debug, FALSE,
                                 IF a.fail_rt = k THEN a.fail_at ELSE 0),
            LAMBDA w2 :
       IF w2.raised # NoError THEN w2
       ELSE Bind([w2 EXCEPT !.mem.group.tasks = Append(@, current_task)],
                 LAMBDA w3 :
                   broadcast_loop(w3, a, k + 1, Append(tasks, current_task),
                                  needs_to_create_copy))))

\* RuntimeGroup.execute_task(task, host, broadcast, execute_async, omit_on_join,
\* debug): a holds the arguments
RuntimeGroup_execute_task(w, a) ==
  Bind([w EXCEPT !.mem.tasks[a.task].omit_on_join = a.omit_on_join], LAMBDA w0 :
  IF a.broadcast THEN broadcast_loop(w0, a, 1, <<>>, FALSE)
  ELSE IF a.host # NoPath /\ ~contains_runtime(w0, a.host)
  THEN [w0 EXCEPT !.raised = ValueError]
  ELSE LET r == IF a.host # NoPath THEN get_runtime(w0, a.host)
                ELSE get_least_busy_runtime(w0)
       IN Bind(Runtime_execute_task(w0, r, a.task, a.execute_async, a.debug, FALSE,
                                    a.fail_at),
               LAMBDA w1 :
                 IF w1.raised # NoError THEN w1
                 ELSE [w1 EXCEPT !.mem.group.tasks = Append(@, a.task), !.ret = a.task]))

RECURSIVE RuntimeGroup_cleanup_loop(_, _, _)
RuntimeGroup_cleanup_loop(w, ok, k) ==
  IF k > Len(w.mem.group.runtimes) \/ w.raised # NoError THEN w
  ELSE Bind(Runtime_cleanup(w, w.mem.group.runtimes[k], ok),
            LAMBDA w1 : RuntimeGroup_cleanup_loop(w1, ok, k + 1))

\* RuntimeGroup.cleanup
RuntimeGroup_cleanup(w, ok) == RuntimeGroup_cleanup_loop(w, ok, 1)

----------------------------------------------------------------------------
(* function_returns: the generators of RuntimeTask and RuntimeGroup.  A     *)
(* generator g is at task g.t (0: between two tasks of the group, whose     *)
(* list it walks at position g.ti) and at return path g.k of that task;     *)
(* g.joined tells whether the task's generator has passed its join().       *)

NoReturn == [kind |-> "None"]

NoGenerator ==
  [kind |-> "none", state |-> "none", t |-> 0, ti |-> 0, k |-> 0, joined |-> FALSE,
   out |-> <<>>]

\* task.function_returns / group.function_returns: a generator that has not run yet
Generator(kind, t) ==
  [NoGenerator EXCEPT !.kind = kind, !.state = "open", !.t = t,
                      !.ti = IF kind = "group" THEN 1 ELSE 0, !.k = 1]

\* a function_returns that yields None whatever the file holds
function_return_ignoring_file(f, return_pkl_path) == NoReturn

\* the body of the loop of RuntimeTask.function_returns: None if the file does
\* not exist, otherwise what pickle.load reads from it
function_return(f, return_pkl_path) ==
  IF return_pkl_path \notin DOMAIN f.files THEN NoReturn ELSE f.files[return_pkl_path]

RECURSIVE generator_next(_, _)
\* next(g): run the generator to its next yield, to its end, or to a join that waits
generator_next(w, g) ==
  IF g.t = 0
  THEN IF g.ti > Len(w.mem.group.tasks) THEN [g EXCEPT !.state = "done"]
       ELSE generator_next(w, [g EXCEPT !.t = w.mem.group.tasks[g.ti],
                                        !.joined = FALSE, !.k = 1])
  ELSE IF ~g.joined
  THEN IF RuntimeTask_join_waits(w, g.t) THEN [g EXCEPT !.state = "waiting"]
       ELSE generator_next(w, [g EXCEPT !.joined = TRUE])
  ELSE IF g.k <= Len(w.mem.tasks[g.t].function_return_pkl_paths)
  THEN [g EXCEPT !.out = Append(@, function_return(w.fs,
                                   w.mem.tasks[g.t].function_return_pkl_paths[g.k])),
                 !.k = @ + 1]
  ELSE IF g.kind = "task" THEN [g EXCEPT !.state = "done"]
  ELSE generator_next(w, [g EXCEPT !.t = 0, !.ti = @ + 1])

----------------------------------------------------------------------------
(* The state after RuntimeGroup([Runtime(h1, d1), ..., Runtime(hN, dN)])    *)
(* and RuntimeTask("t") were constructed.                                   *)

Host(k) == <<"h">> \o Str(k)
UserDirs == {<<"/", "a">>}

Remote0 == [h \in {Host(k) : k \in 1..MaxRuntimes} |-> [mkdtemp |-> 0, dirs |-> {}]]

RECURSIVE NewRuntimes(_, _, _)
\* Runtime(Host(k), dirs[k]) for k, k+1, ..., Len(dirs)
NewRuntimes(w, dirs, k) ==
  IF k > Len(dirs) THEN w
  ELSE Bind(Runtime(w, Host(k), dirs[k]), LAMBDA w1 : NewRuntimes(w1, dirs, k + 1))

\* the task t and the group of the runtimes with the working dirs given
Constructed(dirs) ==
  Bind(RuntimeTask([World0 EXCEPT !.remote = Remote0], <<"t">>), LAMBDA w1 :
  Bind(NewRuntimes(w1, dirs, 1),
       LAMBDA w2 : RuntimeGroup(w2, [k \in 1..Len(dirs) |-> k])))

Runtimes == 1..Len(mem.runtimes)

----------------------------------------------------------------------------
(* SpecEnv: working directories and environment variables of the runtimes  *)
(* of a group, between construction and cleanup.                            *)

EnvDicts == {EmptyDict, "K" :> <<"v">>}

\* the dicts of the task and of the runtimes exist since construction
CanMakeDict == Len(mem.dicts) < 1 + Len(mem.runtimes) + MaxUserDicts

EnvCall(op, r, w) ==
  [op |-> op, runtime |-> r, raised |-> w.raised, rm_ok |-> TRUE,
   working_dir |-> IF r = 0 THEN NoPath ELSE mem.runtimes[r].working_dir,
   ret |-> IF op = "Runtime.working_dir" THEN w.ret ELSE NoPath]

EnvInit ==
  /\ \E n \in 1..MaxRuntimes : \E dirs \in [1..n -> UserDirs \cup {NoPath}] :
        LET w == Constructed(dirs)
        IN mem = w.mem /\ fs = w.fs /\ remote = w.remote /\ procs = w.procs
  /\ ex = NoExecution
  /\ gen = NoGenerator
  /\ call = NoCall

\* runtime.working_dir is read
EnvGetWorkingDir ==
  \E r \in Runtimes :
    LET w == get_working_dir(World, r)
    IN Commit(w) /\ call' = EnvCall("Runtime.working_dir", r, w)
       /\ UNCHANGED <<ex, gen>>

\* runtime.working_dir = d
EnvSetWorkingDir ==
  \E r \in Runtimes, d \in UserDirs :
    LET w == set_working_dir(World, r, d)
    IN Commit(w) /\ call' = EnvCall("Runtime.working_dir =", r, w)
       /\ UNCHANGED <<ex, gen>>

\* runtime.env_variables = {...}
EnvSetEnvVariables ==
  /\ CanMakeDict
  /\ \E r \in Runtimes, c \in EnvDicts :
       LET w == set_env_variables(NewDict(World, c), r, NewId(mem.dicts))
       IN Commit(w) /\ call' = EnvCall("Runtime.env_variables =", r, w)
  /\ UNCHANGED <<ex, gen>>

\* runtime.add_env_variables({...})
EnvAddEnvVariables ==
  \E r \in Runtimes, c \in EnvDicts \ {EmptyDict} :
    LET w == add_env_variables(World, r, c)
    IN Commit(w) /\ call' = EnvCall("Runtime.add_env_variables", r, w)
       /\ UNCHANGED <<ex, gen>>

\* group.set_env_variables({...})
EnvGroupSetEnvVariables ==
  /\ CanMakeDict
  /\ \E c \in EnvDicts :
       LET w == RuntimeGroup_set_env_variables(NewDict(World, c), NewId(mem.dicts))
       IN Commit(w) /\ call' = EnvCall("RuntimeGroup.set_env_variables", 0, w)
  /\ UNCHANGED <<ex, gen>>

\* group.add_env_variables({...})
EnvGroupAddEnvVariables ==
  \E c \in EnvDicts \ {EmptyDict} :
    LET w == RuntimeGroup_add_env_variables(World, c)
    IN Commit(w) /\ call' = EnvCall("RuntimeGroup.add_env_variables", 0, w)
       /\ UNCHANGED <<ex, gen>>

\* runtime.execute_task(t, execute_async=False)
EnvExecuteTask ==
  \E r \in Runtimes :
    /\ Len(mem.runtimes[r].tasks) < MaxDispatches
    /\ LET w == Runtime_execute_task(World, r, T1, FALSE, FALSE, FALSE, 0)
       IN Commit(w) /\ call' = EnvCall("Runtime.execute_task", r, w)
    /\ UNCHANGED <<ex, gen>>

\* runtime.cleanup(); the remote rm, if it is run, succeeds or fails
EnvCleanup ==
  \E r \in Runtimes, ok \in BOOLEAN :
    LET w == Runtime_cleanup(World, r, ok)
    IN Commit(w) /\ call' = [EnvCall("Runtime.cleanup", r, w) EXCEPT !.rm_ok = ok]
       /\ UNCHANGED <<ex, gen>>

EnvNext ==
  \/ EnvGetWorkingDir
  \/ EnvSetWorkingDir
  \/ EnvSetEnvVariables
  \/ EnvAddEnvVariables
  \/ EnvGroupSetEnvVariables
  \/ EnvGroupAddEnvVariables
  \/ EnvExecuteTask
  \/ EnvCleanup

SpecEnv == EnvInit /\ [][EnvNext]_vars

----------------------------------------------------------------------------
(* Claims about the working directory, checked under SpecEnv *)

\* C9: every runtime whose working dir is non-empty has it as the value of
\* WORKING_DIR in its environment variables, after any sequence of working
\* dir reads and assignments, env variable assignments and additions (on the
\* runtime or through the group) and task dispatches.
C9_WorkingDirIsEnvVariable ==
  \A r \in Runtimes :
    mem.runtimes[r].working_dir # NoPath =>
      LET env == mem.dicts[mem.runtimes[r].env_variables]
      IN /\ WORKING_DIR_ENV_VAR_NAME \in DOMAIN env
         /\ env[WORKING_DIR_ENV_VAR_NAME] = mem.runtimes[r].working_dir

\* whether path is a directory that create_tempdir made on the host
IsTempDir(host, path) == \E n \in 1..remote[host].mkdtemp : path = tempdir(host, n)

\* C10: cleanup() deletes the runtime's working dir on the host if and only if
\* it is a temporary directory the runtime created itself; a user-supplied
\* working dir is never deleted, and after the deletion the working dir is unset.
C10_CleanupDeletesTempWorkingDir ==
  (call.op = "Runtime.cleanup" /\ call.working_dir # NoPath) =>
    LET rt == mem.runtimes[call.runtime]
        deleted == call.working_dir \notin remote[rt.host].dirs
    IN /\ (IsTempDir(rt.host, call.working_dir) /\ call.rm_ok) => deleted
       /\ ~IsTempDir(rt.host, call.working_dir) => ~deleted
       /\ deleted => rt.working_dir = NoPath
       /\ ~deleted => rt.working_dir = call.working_dir

\* SpecWorkingDir: the working dirs of the runtimes are read and assigned, tasks
\* are dispatched and the runtimes are cleaned up; the env variables are left
\* as the runtimes keep them
WorkingDirNext ==
  \/ EnvGetWorkingDir
  \/ EnvSetWorkingDir
  \/ EnvExecuteTask
  \/ EnvCleanup

SpecWorkingDir == EnvInit /\ [][WorkingDirNext]_vars

\* the step is a read of runtime.working_dir or a dispatch of a task on r
ReadsWorkingDir(r) ==
  /\ call'.op \in {"Runtime.working_dir", "Runtime.execute_task"}
  /\ call'.runtime = r

\* C23: reads of runtime.working_dir and dispatches of tasks, with no cleanup
\* in between, create at most one directory on the host for the working dir,
\* and every read returns the same path: the first one creates the directory
\* if the runtime has none yet, and from then on every step but a cleanup or
\* an assignment of the working dir leaves the path and the host's directories
\* on the runtime's host as they are, a read returning that path.
C23_WorkingDirCreatedAtMostOnce ==
  [][\A r \in Runtimes :
       LET host == mem.runtimes[r].host
           before == mem.runtimes[r].working_dir
           after == mem'.runtimes[r].working_dir
       IN /\ (ReadsWorkingDir(r) /\ before = NoPath) =>
               /\ remote'[host].mkdtemp = remote[host].mkdtemp + 1
               /\ remote'[host].dirs = remote[host].dirs \cup {after}
               /\ after # NoPath
          /\ (before # NoPath /\ call'.op \notin {"Runtime.cleanup", "Runtime.working_dir ="}) =>
               /\ after = before
               /\ remote'[host] = remote[host]
          /\ (call'.op = "Runtime.working_dir" /\ call'.runtime = r) => call'.ret = after]_vars

\* the working dir is read on a runtime whose working dir is the temporary
\* directory an earlier read or dispatch created
C23_Witness ==
  /\ call.op = "Runtime.working_dir"
  /\ call.working_dir # NoPath
  /\ IsTempDir(mem.runtimes[call.runtime].host, call.working_dir)
  /\ call.ret = call.working_dir

----------------------------------------------------------------------------
(* SpecGroup: the task t is dispatched through a group, the child processes *)
(* run, the manager joins.  call holds the call that has just returned.     *)

TaskShapes == {<<"c", "f">>, <<"f", "f">>}
FailAt == {0, 2}

RECURSIVE Compose(_, _, _, _)
\* the task is composed: run_function for "f", run_command for "c"
Compose(w, t, shape, k) ==
  IF k > Len(shape) THEN w
  ELSE Bind(IF shape[k] = "f" THEN run_function(w, t, <<"f">>)
            ELSE run_command(w, t, Cmd("user", "c1", <<>>, <<>>)),
            LAMBDA w1 : Compose(w1, t, shape, k + 1))

\* the group, the task t of one of the shapes and the task u that runs one function
GroupInit ==
  /\ \E n \in 1..MaxRuntimes, shape \in TaskShapes :
        LET w == Bind(Compose(Constructed([k \in 1..n |-> NoPath]), T1, shape, 1),
                      LAMBDA w1 : Bind(RuntimeTask(w1, <<"u">>),
                                       LAMBDA w2 : Compose(w2, T2, <<"f">>, 1)))
        IN mem = w.mem /\ fs = w.fs /\ remote = w.remote /\ procs = w.procs
  /\ ex = NoExecution
  /\ gen = NoGenerator
  /\ call = NoCall

ExecuteTaskArgs(task, broadcast, execute_async, omit_on_join, debug, fail_rt, fail_at) ==
  [task |-> task, host |-> NoPath, broadcast |-> broadcast,
   execute_async |-> execute_async, omit_on_join |-> omit_on_join,
   debug |-> debug, fail_rt |-> fail_rt, fail_at |-> fail_at]

\* group.execute_task(t, broadcast, execute_async, omit_on_join, debug) returns or
\* raises; a synchronous execution may fail on one of the runtimes
GroupExecuteTask ==
  /\ call.n < MaxCalls
  /\ \E broadcast \in BOOLEAN, execute_async \in BOOLEAN,
        omit_on_join \in BOOLEAN, debug \in BOOLEAN,
        fail_rt \in Runtimes, fail_at \in FailAt :
       /\ (execute_async \/ fail_at = 0 \/ ~broadcast) => fail_rt = 1
       /\ execute_async => fail_at = 0
       /\ LET a == ExecuteTaskArgs(T1, broadcast, execute_async, omit_on_join, debug,
                                   fail_rt, fail_at)
              w == RuntimeGroup_execute_task(World, a)
          IN /\ Commit(w)
             /\ call' = [op |-> "RuntimeGroup.execute_task", n |-> call.n + 1,
                         task |-> T1, broadcast |-> broadcast,
                         execute_async |-> execute_async,
                         omit_on_join |-> omit_on_join, debug |-> debug,
                         raised |-> w.raised,
                         ret |-> IF w.raised # NoError THEN <<>>
                                 ELSE IF broadcast THEN w.ret ELSE <<w.ret>>,
                         before |-> Len(mem.group.tasks)]
  /\ UNCHANGED <<ex, gen>>

\* a child process runs its task to the end, or to a failing command, and exits
ProcessRun ==
  /\ \E p \in 1..Len(procs), fail_at \in FailAt :
       /\ is_alive(World, p)
       /\ Commit(process_run(World, p, fail_at))
  /\ call' = NoCallAfter(call.n)
  /\ UNCHANGED <<ex, gen>>

JoinCall(op, tasks) ==
  [op |-> op, n |-> call.n, raised |-> NoError, joined |-> joined_processes(World, tasks)]

\* task.join() returns
GroupTaskJoin ==
  /\ ~RuntimeTask_join_waits(World, T1)
  /\ call' = JoinCall("RuntimeTask.join", <<T1>>)
  /\ UNCHANGED <<mem, fs, remote, procs, ex, gen>>

\* runtime.join() returns
GroupRuntimeJoin ==
  /\ \E r \in Runtimes :
       /\ ~join_waits(World, mem.runtimes[r].tasks)
       /\ call' = JoinCall("Runtime.join", mem.runtimes[r].tasks)
  /\ UNCHANGED <<mem, fs, remote, procs, ex, gen>>

\* group.join() returns
GroupJoin ==
  /\ ~join_waits(World, mem.group.tasks)
  /\ call' = JoinCall("RuntimeGroup.join", mem.group.tasks)
  /\ UNCHANGED <<mem, fs, remote, procs, ex, gen>>

GroupNext ==
  \/ GroupExecuteTask
  \/ ProcessRun
  \/ GroupTaskJoin
  \/ GroupRuntimeJoin
  \/ GroupJoin

SpecGroup == GroupInit /\ [][GroupNext]_vars

----------------------------------------------------------------------------
(* SpecReturns: the tasks t and u are dispatched through the group, each    *)
(* once; the child processes run; the function returns are read from one    *)
(* generator of a task or of the group.                                     *)

\* the tasks that have been handed to a runtime
Dispatched == UNION {Range(mem.runtimes[r].tasks) : r \in Runtimes}

\* group.execute_task(task, execute_async=.., debug=..) returns: the task went
\* to the least busy runtime
ReturnsExecuteTask ==
  /\ \E task \in {T1, T2} \ Dispatched,
        execute_async \in BOOLEAN, debug \in BOOLEAN :
       Commit(RuntimeGroup_execute_task(World,
              ExecuteTaskArgs(task, FALSE, execute_async, FALSE, debug, 1, 0)))
  /\ UNCHANGED <<ex, gen, call>>

\* runtime.execute_task(task, execute_async=True, omit_on_join=..) returns: the
\* task runs in a child process of the manager
ReturnsRuntimeExecuteTask ==
  /\ \E task \in {T1, T2} \ Dispatched, r \in Runtimes, omit_on_join \in BOOLEAN :
       Commit(Runtime_execute_task(World, r, task, TRUE, omit_on_join, FALSE, 0))
  /\ UNCHANGED <<ex, gen, call>>

\* task.function_returns or group.function_returns is read: a new generator
ReturnsFunctionReturns ==
  /\ gen = NoGenerator
  /\ \/ \E t \in {T1, T2} : gen' = Generator("task", t)
     \/ gen' = Generator("group", 0)
  /\ UNCHANGED <<mem, fs, remote, procs, ex, call>>

\* next() on the generator returns an element or ends the iteration
ReturnsNext ==
  /\ gen.state = "open"
  /\ generator_next(World, gen).state # "waiting"
  /\ gen' = generator_next(World, gen)
  /\ UNCHANGED <<mem, fs, remote, procs, ex, call>>

ReturnsStep ==
  \/ ReturnsExecuteTask
  \/ ReturnsRuntimeExecuteTask
  \/ ProcessRun
  \/ ReturnsFunctionReturns
  \/ ReturnsNext

SpecReturns == GroupInit /\ [][ReturnsStep]_vars

----------------------------------------------------------------------------
(* Claims about dispatch and join, checked under SpecGroup *)

Broadcast ==
  call.op = "RuntimeGroup.execute_task" /\ call.broadcast /\ call.raised = NoError

\* C1: execute_task(t, broadcast=True) on a group of N runtimes returns a list
\* of length N whose first element is t itself and whose k-th further element
\* is a distinct task object named t.name-k.
C1_BroadcastReturnsTaskAndCopies ==
  Broadcast =>
    LET N == Len(mem.group.runtimes)
        tasks == call.ret
    IN /\ Len(tasks) = N
       /\ tasks[1] = call.task
       /\ \A k \in 1..(N - 1) :
            /\ tasks[k + 1] # call.task
            /\ mem.tasks[tasks[k + 1]].name =
                 mem.tasks[call.task].name \o <<"-">> \o Str(k)
       /\ \A j, k \in 1..N : j # k => tasks[j] # tasks[k]

\* C2: after execute_task(t, broadcast=True) on a group of N runtimes the
\* group's task list has gained exactly N entries in which t occurs exactly
\* once; the others are deep copies, and no runtime other than the first is
\* handed t itself.
C2_BroadcastAppendsTaskOnce ==
  Broadcast =>
    LET N == Len(mem.group.runtimes)
        gained == SubSeq(mem.group.tasks, call.before + 1, Len(mem.group.tasks))
    IN /\ Len(gained) = N
       /\ Cardinality({k \in 1..Len(gained) : gained[k] = call.task}) = 1
       /\ \A k \in 1..Len(gained) :
            gained[k] # call.task =>
              /\ IsPrefix(mem.tasks[call.task].name \o <<"-">>, mem.tasks[gained[k]].name)
              /\ Len(mem.tasks[gained[k]].task_steps) = Len(mem.tasks[call.task].task_steps)
       /\ \A k \in 2..N :
            LET handed == mem.runtimes[mem.group.runtimes[k]].tasks
            IN handed # <<>> => handed[Len(handed)] # call.task

\* C3: a task dispatched asynchronously through the group with
\* omit_on_join=True still has omit_on_join = True after the dispatch, and
\* join() does not wait for it while its child process is alive, whatever the
\* debug flag was.
C3_JoinOmitsTaskMarkedOmitOnJoin ==
  (/\ call.op = "RuntimeGroup.execute_task"
   /\ call.execute_async
   /\ call.omit_on_join
   /\ call.raised = NoError) =>
     \A k \in 1..Len(call.ret) :
        /\ mem.tasks[call.ret[k]].omit_on_join
        /\ ~RuntimeTask_join_waits(World, call.ret[k])

\* C27: the debug flag given to RuntimeGroup.execute_task is the debug flag
\* with which the task is executed, in a child process or in the manager's
\* (where the output of the commands is written to the log file exactly if
\* debug is off), and the task's omit_on_join flag is the one that was given,
\* whatever the debug flag.
C27_DebugReachesExecuteUnchanged ==
  (call.op = "RuntimeGroup.execute_task" /\ call.raised = NoError) =>
     \A k \in 1..Len(call.ret) :
        LET task == mem.tasks[call.ret[k]]
        IN /\ call.execute_async =>
                /\ procs[task.process].debug = call.debug
                /\ task.omit_on_join = call.omit_on_join
           /\ ~call.execute_async =>
                (task.execution_log_file_path \in DOMAIN fs.files) = ~call.debug

\* C4: a join (of the task, of the runtime or of the group) never returns
\* normally after it has joined the process of a task whose execution failed.
C4_JoinRaisesForFailedTask ==
  (call.op \in {"RuntimeTask.join", "Runtime.join", "RuntimeGroup.join"}
     /\ call.raised = NoError) =>
       \A p \in call.joined : procs[p].exitcode = 0

----------------------------------------------------------------------------
(* Claims about function_returns, checked under SpecReturns *)

\* the RUN_FUNCTION steps of a task, in the order of their registration
FunctionSteps(m, t) ==
  SelectSeq(m.tasks[t].task_steps, LAMBDA sid : m.steps[sid].type = TYPE_RUN_FUNCTION)

RECURSIVE GroupRegistrations(_, _)
\* the registrations <<task, i>> of the tasks of the group from position k on
GroupRegistrations(m, k) ==
  IF k > Len(m.group.tasks) THEN <<>>
  ELSE [i \in 1..Len(FunctionSteps(m, m.group.tasks[k])) |-> <<m.group.tasks[k], i>>]
         \o GroupRegistrations(m, k + 1)

\* the registrations the generator in hand iterates over
Registrations ==
  IF gen.kind = "group" THEN GroupRegistrations(mem, 1)
  ELSE [i \in 1..Len(FunctionSteps(mem, gen.t)) |-> <<gen.t, i>>]

\* what the element for a registration must be: None if the manager has no
\* file at the local path of the registration's get step, otherwise the
\* content of that file, which was fetched from the file the invocation wrote
ElementIsReturnOf(element, reg) ==
  LET function_step == mem.steps[FunctionSteps(mem, reg[1])[reg[2]]]
      invoke == mem.steps[function_step.function_steps[3]]
      fetch == mem.steps[function_step.function_steps[5]]
  IN IF fetch.local_path \in DOMAIN fs.files
     THEN /\ element = fs.files[fetch.local_path]
          /\ PathTail(element.data) = PathTail(invoke.command.b)
     ELSE element = NoReturn

Yields == gen.state = "open" /\ Len(gen'.out) > Len(gen.out)

\* C7: function_returns yields exactly one element per run_function
\* registration, in registration order (for the group: task after task in the
\* order of the group's task list); the element is the return fetched for
\* that registration, or None, in its place, when the file is missing.
C7_OneReturnPerRegistrationInOrder ==
  [][ (gen.state = "open" /\ gen' # gen) =>
        LET n == Len(gen.out) IN
        IF gen'.state = "done"
        THEN gen'.out = gen.out /\ n = Len(Registrations)
        ELSE /\ Len(gen'.out) = n + 1
             /\ SubSeq(gen'.out, 1, n) = gen.out
             /\ n < Len(Registrations)
             /\ ElementIsReturnOf(gen'.out[n + 1], Registrations[n + 1]) ]_vars

\* a generator has run to its end and has yielded a None before a return
C7_Witness ==
  /\ gen.state = "done"
  /\ \E i, j \in 1..Len(gen.out) : i < j /\ gen.out[i] = NoReturn /\ gen.out[j] # NoReturn

\* the task whose element is yielded has no process that is still alive
YieldedTaskHasExited ==
  \/ mem.tasks[gen'.t].process = NoProcess
  \/ ~is_alive(World, mem.tasks[gen'.t].process)

FirstTouch == ~gen.joined \/ gen.t # gen'.t \/ gen.ti # gen'.ti

----------------------------------------------------------------------------
(* SpecCleanup: two tasks, of the same name or not, are handed to runtimes  *)
(* of a group, their child processes run, and the runtimes are cleaned up.  *)

TaskNames == {<<"t">>, <<"u">>}

\* the group, the task t and a second task of some name, one function each
CleanupInit ==
  /\ \E n \in 1..MaxRuntimes, name \in TaskNames :
        LET w == Bind(Compose(Constructed([k \in 1..n |-> NoPath]), T1, <<"f">>, 1),
                      LAMBDA w1 : Bind(RuntimeTask(w1, name),
                                       LAMBDA w2 : Compose(w2, T2, <<"f">>, 1)))
        IN mem = w.mem /\ fs = w.fs /\ remote = w.remote /\ procs = w.procs
  /\ ex = NoExecution
  /\ gen = NoGenerator
  /\ call = NoCall

\* runtime.execute_task(task, execute_async) returns
CleanupExecuteTask ==
  /\ \E task \in {T1, T2} \ Dispatched, r \in Runtimes, execute_async \in BOOLEAN :
       Commit(Runtime_execute_task(World, r, task, execute_async, FALSE, FALSE, 0))
  /\ call' = NoCallAfter(call.n)
  /\ UNCHANGED <<ex, gen>>

\* the temp dir of a task disappears from the manager's disk
CleanupTempDirLost ==
  /\ \E t \in 1..Len(mem.tasks) :
       /\ mem.tasks[t].temp_dir \in fs.dirs
       /\ fs' = rmtree(fs, mem.tasks[t].temp_dir)
  /\ call' = NoCallAfter(call.n)
  /\ UNCHANGED <<mem, remote, procs, ex, gen>>

CleanupCall(op, r, w) == [op |-> op, n |-> call.n, runtime |-> r, raised |-> w.raised]

\* runtime.cleanup() returns or raises
CleanupRuntime ==
  \E r \in Runtimes, ok \in BOOLEAN :
    LET w == Runtime_cleanup(World, r, ok)
    IN Commit(w) /\ call' = CleanupCall("Runtime.cleanup", r, w)
       /\ UNCHANGED <<ex, gen>>

\* group.cleanup() returns or raises
CleanupGroup ==
  \E ok \in BOOLEAN :
    LET w == RuntimeGroup_cleanup(World, ok)
    IN Commit(w) /\ call' = CleanupCall("RuntimeGroup.cleanup", 0, w)
       /\ UNCHANGED <<ex, gen>>

CleanupNext ==
  \/ CleanupExecuteTask
  \/ ProcessRun
  \/ CleanupTempDirLost
  \/ CleanupRuntime
  \/ CleanupGroup

SpecCleanup == CleanupInit /\ [][CleanupNext]_vars

CleanupReturned ==
  call.op \in {"Runtime.cleanup", "RuntimeGroup.cleanup"} /\ call.raised = NoError

\* C11: after cleanup() of a runtime (or of the group) has returned, no child
\* process the runtime spawned for an asynchronously dispatched task is alive.
C11_NoTaskProcessAliveAfterCleanup ==
  CleanupReturned =>
    \A p \in 1..Len(procs) :
       (call.op = "Runtime.cleanup" => procs[p].runtime = call.runtime)
         => ~is_alive(World, p)

\* C12: Runtime.cleanup() and RuntimeGroup.cleanup() never raise.
C12_CleanupNeverRaises ==
  call.op \in {"Runtime.cleanup", "RuntimeGroup.cleanup"} => call.raised = NoError

----------------------------------------------------------------------------
(* The choice of the runtime by group.execute_task, checked under SpecReturns *)

\* the child processes of task executions on runtime r that are alive
AliveTaskProcesses(r) ==
  {p \in 1..Len(procs) : procs[p].runtime = r /\ is_alive(World, p)}

\* group.execute_task has handed a task to runtime r in this step
GroupDispatchedTo(r) ==
  /\ Len(mem'.group.tasks) = Len(mem.group.tasks) + 1
  /\ Len(mem'.runtimes[r].tasks) = Len(mem.runtimes[r].tasks) + 1

\* C17: group.execute_task without host and without broadcast hands the task
\* to the runtime with the fewest alive task processes (finished ones do not
\* count), the earliest of the group on a tie.
C17_DispatchToFewestAliveTaskProcesses ==
  [][ \A r \in Runtimes :
        GroupDispatchedTo(r) =>
          \A q \in Runtimes :
             /\ Cardinality(AliveTaskProcesses(r)) <= Cardinality(AliveTaskProcesses(q))
             /\ q < r => Cardinality(AliveTaskProcesses(r)) < Cardinality(AliveTaskProcesses(q))
    ]_vars

----------------------------------------------------------------------------
(* Ports.  w.remote[host].ports is the set of ports on which something      *)
(* listens on the host; the manager is the host LOCALHOST.  A port argument *)
(* that may be an int, a list or None is a record: AnInt(p), AList(l),    *)
(* AnInt(NoPort) for None.  A tunnel listens once its process has been      *)
(* started.                                                                 *)

LOCALHOST == <<"l", "o", "c", "a", "l", "h", "o", "s", "t">>
PORT_TO_RUNTIME == <<"-", "R">>
PORT_FROM_RUNTIME == <<"-", "L">>

NoPort == 0
AnInt(p) == [isinstance_list |-> FALSE, v |-> p, l |-> <<>>]
AList(l) == [isinstance_list |-> TRUE, v |-> NoPort, l |-> l]

\* not x, for a port argument x
Not(x) == IF x.isinstance_list THEN x.l = <<>> ELSE x.v = NoPort

PortInUseError(port) == [type |-> "PortInUseError", port |-> port]
NoPortsLeftError == [type |-> "NoPortsLeftError"]

\* _utils.get_remaining_ports: the loop over ports from position k on
RECURSIVE remaining_ports_loop(_, _, _, _, _)
remaining_ports_loop(ports, last_used_port, k, skip, final_port_list) ==
  IF k > Len(ports) THEN final_port_list
  ELSE IF skip
       THEN remaining_ports_loop(ports, last_used_port, k + 1,
                                 ports[k] # last_used_port, final_port_list)
       ELSE remaining_ports_loop(ports, last_used_port, k + 1, FALSE,
                                 Append(final_port_list, ports[k]))

\* _utils.get_remaining_ports(ports, last_used_port)
get_remaining_ports(ports, last_used_port) ==
  remaining_ports_loop(ports, last_used_port, 1, TRUE, <<>>)

\* _utils.localhost_has_free_port(port)
localhost_has_free_port(w, port) == port \notin w.remote[LOCALHOST].ports

\* Runtime.has_free_port(port)
Runtime_has_free_port(w, r, port) == port \notin w.remote[w.mem.runtimes[r].host].ports

\* RuntimeGroup.hosts
hosts(w) == [k \in 1..Len(w.mem.group.runtimes) |-> w.mem.runtimes[w.mem.group.runtimes[k]].host]

\* RuntimeGroup.get_runtimes(exclude_hosts=exclude_hosts): the runtimes left
get_runtimes(w, exclude_hosts) ==
  SelectSeq(w.mem.group.runtimes,
            LAMBDA r : w.mem.runtimes[r].host \notin Range(exclude_hosts))

\* a has_free_port that asks the first runtime only
RuntimeGroup_has_free_port_on_first(w, port, exclude_hosts) ==
  LET runtimes == get_runtimes(w, exclude_hosts)
  IN runtimes # <<>> => Runtime_has_free_port(w, runtimes[1], port)

\* RuntimeGroup.has_free_port(port, exclude_hosts)
RuntimeGroup_has_free_port(w, port, exclude_hosts) ==
  \A r \in Range(get_runtimes(w, exclude_hosts)) : Runtime_has_free_port(w, r, port)

RECURSIVE get_free_port_loop(_, _, _, _)
\* the loop of RuntimeGroup.get_free_port from position k of the list on
get_free_port_loop(w, ports, enforce_check_on_localhost, k) ==
  IF k > Len(ports) THEN [w EXCEPT !.raised = NoPortsLeftError]
  ELSE IF /\ enforce_check_on_localhost
          /\ ~contains_runtime(w, LOCALHOST)
          /\ ~localhost_has_free_port(w, ports[k])
       THEN get_free_port_loop(w, ports, enforce_check_on_localhost, k + 1)
  ELSE IF ~RuntimeGroup_has_free_port(w, ports[k], <<>>)
       THEN get_free_port_loop(w, ports, enforce_check_on_localhost, k + 1)
  ELSE [w EXCEPT !.ret = ports[k]]

\* RuntimeGroup.get_free_port(ports, enforce_check_on_localhost)
RuntimeGroup_get_free_port(w, ports, enforce_check_on_localhost) ==
  IF ports = <<>> THEN [w EXCEPT !.raised = NoPortsLeftError]
  ELSE get_free_port_loop(w, ports, enforce_check_on_localhost, 1)

\* a key with the runtime port before the local port in both directions
create_process_key_runtime_port_first(host, direction, local_port, runtime_port) ==
  LET local == IF local_port = NoPort THEN runtime_port ELSE local_port
      runtime == IF runtime_port = NoPort THEN local ELSE runtime_port
  IN host \o PROCESS_KEY_DELIMITER \o direction \o PROCESS_KEY_DELIMITER
       \o Str(runtime) \o PROCESS_KEY_DELIMITER \o Str(local)

\* Runtime._create_process_key_for_port_exposure(direction, local_port, runtime_port)
create_process_key_for_port_exposure(host, direction, local_port, runtime_port) ==
  LET local == IF local_port = NoPort THEN runtime_port ELSE local_port
      runtime == IF runtime_port = NoPort THEN local ELSE runtime_port
  IN IF direction = PORT_FROM_RUNTIME
     THEN host \o PROCESS_KEY_DELIMITER \o PORT_FROM_RUNTIME \o PROCESS_KEY_DELIMITER
            \o Str(local) \o PROCESS_KEY_DELIMITER \o Str(runtime)
     ELSE host \o PROCESS_KEY_DELIMITER \o PORT_TO_RUNTIME \o PROCESS_KEY_DELIMITER
            \o Str(runtime) \o PROCESS_KEY_DELIMITER \o Str(local)

\* Runtime.is_port_exposure_process
is_port_exposure_process(process_key) ==
  LET key_splits == Split(process_key, PROCESS_KEY_DELIMITER)
  IN key_splits[2] = PORT_FROM_RUNTIME \/ key_splits[2] = PORT_TO_RUNTIME

\* Process(target=self._forward_..., kwargs=...) of runtime r: no task
TunnelProcess(r) == Process(Memory0, r, 0, FALSE)

\* an exposure that tunnels from the manager to itself as to any other host
expose_port_to_runtime_also_to_itself(w, r, local_port, runtime_port) ==
  LET rt == w.mem.runtimes[r]
      port == IF runtime_port = NoPort THEN local_port ELSE runtime_port
      key == create_process_key_for_port_exposure(rt.host, PORT_TO_RUNTIME, local_port, port)
  IN IF ~Runtime_has_free_port(w, r, port)
     THEN [w EXCEPT !.raised = PortInUseError(port)]
     ELSE [w EXCEPT !.procs = Append(@, TunnelProcess(r)),
                    !.remote[rt.host].ports = @ \cup {port},
                    !.mem.runtimes[r].processes = (key :> NewId(w.procs)) @@ @,
                    !.ret = key]

\* Runtime.expose_port_to_runtime(local_port, runtime_port): ret is the key
Runtime_expose_port_to_runtime(w, r, local_port, runtime_port) ==
  LET rt == w.mem.runtimes[r]
      port == IF runtime_port = NoPort THEN local_port ELSE runtime_port
      key == create_process_key_for_port_exposure(rt.host, PORT_TO_RUNTIME, local_port, port)
  IN IF local_port = port /\ rt.host = LOCALHOST THEN [w EXCEPT !.ret = <<>>]
     ELSE IF ~Runtime_has_free_port(w, r, port)
          THEN [w EXCEPT !.raised = PortInUseError(port)]
     ELSE [w EXCEPT !.procs = Append(@, TunnelProcess(r)),
                    !.remote[rt.host].ports = @ \cup {port},
                    !.mem.runtimes[r].processes = (key :> NewId(w.procs)) @@ @,
                    !.ret = key]

\* Runtime.expose_port_from_runtime(runtime_port, local_port): ret is the key
Runtime_expose_port_from_runtime(w, r, runtime_port, local_port) ==
  LET rt == w.mem.runtimes[r]
      port == IF local_port = NoPort THEN runtime_port ELSE local_port
      key == create_process_key_for_port_exposure(rt.host, PORT_FROM_RUNTIME, port, runtime_port)
  IN IF port = runtime_port /\ rt.host = LOCALHOST THEN [w EXCEPT !.ret = <<>>]
     ELSE IF ~localhost_has_free_port(w, port)
          THEN [w EXCEPT !.raised = PortInUseError(runtime_port)]
     ELSE [w EXCEPT !.procs = Append(@, TunnelProcess(r)),
                    !.remote[LOCALHOST].ports = @ \cup {port},
                    !.mem.runtimes[r].processes = (key :> NewId(w.procs)) @@ @,
                    !.ret = key]

RECURSIVE expose_port_to_runtimes_loop(_, _, _, _, _)
\* the loop of expose_port_to_runtimes over the runtimes from position k on
expose_port_to_runtimes_loop(w, runtimes, local_port, selected_runtime_port, k) ==
  IF k > Len(runtimes) \/ w.raised # NoError THEN w
  ELSE Bind(Runtime_expose_port_to_runtime(w, runtimes[k], local_port, selected_runtime_port),
            LAMBDA w1 :
              expose_port_to_runtimes_loop(
                IF w1.raised = NoError /\ w1.ret # <<>>
                THEN [w1 EXCEPT !.mem.group.proc_keys = Append(@, w1.ret)] ELSE w1,
                runtimes, local_port, selected_runtime_port, k + 1))

\* RuntimeGroup.expose_port_to_runtimes(local_port, runtime_port, exclude_hosts)
RuntimeGroup_expose_port_to_runtimes(w, local_port, runtime_port, exclude_hosts) ==
  LET single == IF Not(runtime_port) THEN local_port ELSE runtime_port.v IN
  Bind(IF Not(runtime_port) \/ ~runtime_port.isinstance_list
       THEN IF ~RuntimeGroup_has_free_port(w, single, <<>>)
            THEN [w EXCEPT !.raised = PortInUseError(single)]
            ELSE [w EXCEPT !.ret = single]
       ELSE RuntimeGroup_get_free_port(w, runtime_port.l, FALSE),
       LAMBDA w1 :
         IF w1.raised # NoError THEN w1
         ELSE LET selected_runtime_port == w1.ret IN
              IF ~RuntimeGroup_has_free_port(w1, selected_runtime_port,
                                             exclude_hosts \o <<LOCALHOST>>)
              THEN [w1 EXCEPT !.raised = PortInUseError(selected_runtime_port)]
              ELSE Bind(expose_port_to_runtimes_loop(w1, get_runtimes(w1, exclude_hosts),
                                                     local_port, selected_runtime_port, 1),
                        LAMBDA w2 : IF w2.raised # NoError THEN w2
                                    ELSE [w2 EXCEPT !.ret = selected_runtime_port]))

----------------------------------------------------------------------------
(* SpecPorts: get_free_port and get_remaining_ports on a group some of      *)
(* whose hosts have ports in use.                                           *)

PortValues == {7000, 7001, 7002}

\* the port lists a caller passes
PortLists == UNION {[1..n -> PortValues] : n \in 0..MaxListLen}

\* what may listen on a host before the library is used
BusyPorts == {{}, {7000}, {7001}}

\* the hosts of a group: the manager itself may be one of them
HostLists ==
  {[k \in 1..n |-> Host(k)] : n \in 1..MaxRuntimes}
    \cup {<<LOCALHOST>> \o [k \in 1..(n - 1) |-> Host(k)] : n \in 1..MaxRuntimes}

RECURSIVE RuntimesOn(_, _, _)
\* Runtime(host) for the hosts of the list from position k on
RuntimesOn(w, host_list, k) ==
  IF k > Len(host_list) THEN w
  ELSE Bind(Runtime(w, host_list[k], NoPath), LAMBDA w1 : RuntimesOn(w1, host_list, k + 1))

\* RuntimeGroup(runtimes) on the hosts of the list; busy[h] is in use on h
ConstructedOn(host_list, busy) ==
  Bind(RuntimesOn([World0 EXCEPT !.remote =
                     [h \in DOMAIN busy |-> [mkdtemp |-> 0, dirs |-> {}, ports |-> busy[h]]]],
                  host_list, 1),
       LAMBDA w : RuntimeGroup(w, [k \in 1..Len(host_list) |-> k]))

PortsInit ==
  /\ \E host_list \in HostLists :
       \E busy \in [Range(host_list) \cup {LOCALHOST} -> BusyPorts] :
          LET w == ConstructedOn(host_list, busy)
          IN mem = w.mem /\ fs = w.fs /\ remote = w.remote /\ procs = w.procs
  /\ ex = NoExecution
  /\ gen = NoGenerator
  /\ call = NoCall

\* group.get_free_port(ports, enforce_check_on_localhost) returns or raises
PortsGetFreePort ==
  /\ call = NoCall
  /\ \E ports \in PortLists, enforce_check_on_localhost \in BOOLEAN :
       LET w == RuntimeGroup_get_free_port(World, ports, enforce_check_on_localhost)
       IN call' = [op |-> "RuntimeGroup.get_free_port", n |-> call.n, ports |-> ports,
                   enforce_check_on_localhost |-> enforce_check_on_localhost,
                   raised |-> w.raised, ret |-> w.ret]
  /\ UNCHANGED <<mem, fs, remote, procs, ex, gen>>

\* get_remaining_ports(ports, p) returns, p being what get_free_port(ports) returned
PortsGetRemainingPorts ==
  /\ call.op = "RuntimeGroup.get_free_port"
  /\ call.raised = NoError
  /\ call' = [op |-> "get_remaining_ports", n |-> call.n, ports |-> call.ports,
              last_used_port |-> call.ret,
              ret |-> get_remaining_ports(call.ports, call.ret)]
  /\ UNCHANGED <<mem, fs, remote, procs, ex, gen>>

PortsNext ==
  \/ PortsGetFreePort
  \/ PortsGetRemainingPorts

SpecPorts == PortsInit /\ [][PortsNext]_vars

\* the port is free where get_free_port has to look
PortPasses(port, enforce_check_on_localhost) ==
  /\ \A r \in Runtimes : port \notin remote[mem.runtimes[r].host].ports
  /\ enforce_check_on_localhost => port \notin remote[LOCALHOST].ports

\* C18: get_free_port(ports) returns the first port of the list that is free
\* on every runtime of the group (and on the manager if
\* enforce_check_on_localhost is set), and raises NoPortsLeftError exactly
\* when no port of the list is.
C18_GetFreePortReturnsFirstFreePort ==
  call.op = "RuntimeGroup.get_free_port" =>
    LET passing == {k \in 1..Len(call.ports) :
                      PortPasses(call.ports[k], call.enforce_check_on_localhost)}
    IN IF passing = {} THEN call.raised = NoPortsLeftError
       ELSE /\ call.raised = NoError
            /\ \E k \in passing : /\ call.ret = call.ports[k]
                                  /\ \A j \in passing : k <= j

\* a port in use on one runtime only is passed over, as is one in use on the
\* manager only when the manager is to be checked
C18_Witness ==
  /\ call.op = "RuntimeGroup.get_free_port"
  /\ call.raised = NoError
  /\ Len(call.ports) >= 2
  /\ call.ret = call.ports[2]
  /\ call.ret # call.ports[1]
  /\ \/ Cardinality({r \in Runtimes : call.ports[1] \in remote[mem.runtimes[r].host].ports}) = 1
     \/ /\ call.enforce_check_on_localhost
        /\ PortPasses(call.ports[1], FALSE)

\* C19: get_remaining_ports(L, p), p returned by get_free_port(L), is exactly
\* the entries of L after the position of p, in order; neither p nor any port
\* before it occurs in the result.
C19_RemainingPortsExcludeUsedPort ==
  call.op = "get_remaining_ports" =>
    LET L == call.ports
        at == CHOOSE k \in 1..Len(L) :
                L[k] = call.last_used_port /\ \A j \in 1..(k - 1) : L[j] # call.last_used_port
    IN /\ call.ret = SubSeq(L, at + 1, Len(L))
       /\ \A j \in 1..at : L[j] \notin Range(call.ret)

----------------------------------------------------------------------------
(* SpecExpose: a local port is exposed to the runtimes of a group some of   *)
(* whose hosts have ports in use.                                           *)

\* the runtime_port arguments: None, a port, a list of ports
RuntimePortArgs ==
  {AnInt(NoPort)} \cup {AnInt(p) : p \in PortValues}
    \cup {AList(l) : l \in {<<7000, 7001>>, <<7001, 7000>>}}

\* the tunnels to runtime r that are registered with r
TunnelsTo(m, r) ==
  {k \in DOMAIN m.runtimes[r].processes :
     Split(k, PROCESS_KEY_DELIMITER)[2] = PORT_TO_RUNTIME}

\* group.expose_port_to_runtimes(local_port, runtime_port, exclude_hosts)
\* returns or raises
ExposePortToRuntimes ==
  /\ call.n < MaxCalls
  /\ \E local_port \in PortValues, runtime_port \in RuntimePortArgs,
        exclude_hosts \in {<<>>} \cup {<<h>> : h \in Range(hosts(World))} :
       LET w == RuntimeGroup_expose_port_to_runtimes(World, local_port, runtime_port,
                                                     exclude_hosts)
       IN /\ Commit(w)
          /\ call' = [op |-> "RuntimeGroup.expose_port_to_runtimes", n |-> call.n + 1,
                      local_port |-> local_port, runtime_port |-> runtime_port,
                      exclude_hosts |-> exclude_hosts, in_use |-> remote,
                      raised |-> w.raised, ret |-> w.ret]
  /\ UNCHANGED <<ex, gen>>

\* something starts or stops listening on a port of a host
ExposePortChanges ==
  /\ call.n < MaxCalls
  /\ \E h \in DOMAIN remote, p \in PortValues :
       remote' = [remote EXCEPT ![h].ports =
                    IF p \in @ THEN @ \ {p} ELSE @ \cup {p}]
  /\ call' = NoCallAfter(call.n)
  /\ UNCHANGED <<mem, fs, procs, ex, gen>>

ExposeNext ==
  \/ ExposePortToRuntimes
  \/ ExposePortChanges

SpecExpose == PortsInit /\ [][ExposeNext]_vars

\* C20: expose_port_to_runtimes verifies the resolved runtime port on the
\* non-excluded runtimes only: if the port is in use on excluded hosts at most,
\* the call returns the port, having made a tunnel on every runtime that is
\* not excluded and on no excluded one.
C20_ExposeChecksNonExcludedRuntimesOnly ==
  (/\ call.op = "RuntimeGroup.expose_port_to_runtimes"
   /\ ~call.runtime_port.isinstance_list) =>
     LET port == IF call.runtime_port.v = NoPort THEN call.local_port
                 ELSE call.runtime_port.v
         excluded == Range(call.exclude_hosts)
         in_use_on == {h \in DOMAIN call.in_use : port \in call.in_use[h].ports}
     IN in_use_on \subseteq excluded =>
          /\ call.raised = NoError
          /\ call.ret = port
          /\ \A r \in Runtimes :
               mem.runtimes[r].host # LOCALHOST =>
                 (TunnelsTo(mem, r) # {} <=> mem.runtimes[r].host \notin excluded)

----------------------------------------------------------------------------
(* The cluster.  mem.cluster is a DaskCluster with its LocalMasterLauncher  *)
(* and its RoundRobinLauncher; ports_per_host is a dict, kept as the        *)
(* sequence of its items in insertion order.  The scheduler and the workers *)
(* are programs of their own: whether they listen on their port by the time *)
(* the library looks is the environment's choice (up).                      *)

DEFAULT_MASTER_PORT == 8786
PIP_INSTALL_COMMAND == Cmd("pip install", <<>>, <<>>, <<>>)
s_launch_dask_worker ==
  <<"l", "a", "u", "n", "c", "h", "-", "d", "a", "s", "k", "-", "w", "o", "r", "k", "e", "r", "-">>

MasterStartError(port) == [type |-> "MasterStartError", port |-> port]

RECURSIVE expose_port_from_runtime_to_group_loop_keys_dropped(_, _, _, _, _, _)
\* the loop, were the keys of the tunnels not appended to _proc_keys
expose_port_from_runtime_to_group_loop_keys_dropped(w, host, runtime_port, local_port, group_port, k) ==
  IF k > Len(w.mem.group.runtimes) \/ w.raised # NoError THEN w
  ELSE LET r == w.mem.group.runtimes[k] IN
       Bind(IF w.mem.runtimes[r].host = host
            THEN Runtime_expose_port_from_runtime(w, r, runtime_port, local_port)
            ELSE Runtime_expose_port_to_runtime(w, r, local_port, group_port),
            LAMBDA w1 :
              expose_port_from_runtime_to_group_loop_keys_dropped(
                w1, host, runtime_port, local_port, group_port, k + 1))

\* RuntimeGroup.expose_port_from_runtime_to_group: the loop over the runtimes
\* from position k on
RECURSIVE expose_port_from_runtime_to_group_loop(_, _, _, _, _, _)
expose_port_from_runtime_to_group_loop(w, host, runtime_port, local_port, group_port, k) ==
  IF k > Len(w.mem.group.runtimes) \/ w.raised # NoError THEN w
  ELSE LET r == w.mem.group.runtimes[k] IN
       Bind(IF w.mem.runtimes[r].host = host
            THEN Runtime_expose_port_from_runtime(w, r, runtime_port, local_port)
            ELSE Runtime_expose_port_to_runtime(w, r, local_port, group_port),
            LAMBDA w1 :
              expose_port_from_runtime_to_group_loop(
                IF w1.raised = NoError /\ w1.ret # <<>>
                THEN [w1 EXCEPT !.mem.group.proc_keys = Append(@, w1.ret)] ELSE w1,
                host, runtime_port, local_port, group_port, k + 1))

\* RuntimeGroup.expose_port_from_runtime_to_group(host, runtime_port, group_port);
\* group_port is a port, a list of ports or left out.  The search of the
\* internal port range goes on after a free port has been found: the last free
\* port of the range is the one taken.
RuntimeGroup_expose_port_from_runtime_to_group(w, host, runtime_port, group_port) ==
  IF ~contains_runtime(w, host) THEN [w EXCEPT !.raised = ValueError]
  ELSE
  Bind(IF Not(group_port) \/ ~group_port.isinstance_list
       THEN LET single == IF Not(group_port) THEN runtime_port ELSE group_port.v
            IN IF ~RuntimeGroup_has_free_port(w, single, <<host>>)
               THEN [w EXCEPT !.raised = PortInUseError(single)]
               ELSE [w EXCEPT !.ret = single]
       ELSE RuntimeGroup_get_free_port(w, group_port.l, FALSE),
       LAMBDA w0 :
  IF w0.raised # NoError THEN w0
  ELSE LET selected_group_port == w0.ret
           range == w0.mem.group.internal_port_range
           free == {current_port \in range.start..(range.stop - 1) :
                      localhost_has_free_port(w0, current_port)}
           direct == localhost_has_free_port(w0, selected_group_port)
           local_port == IF direct THEN selected_group_port
                         ELSE IF free = {} THEN NoPort
                         ELSE CHOOSE x \in free : \A y \in free : y <= x
       IN IF local_port = NoPort THEN [w0 EXCEPT !.raised = NoPortsLeftError]
          ELSE Bind(expose_port_from_runtime_to_group_loop(
                      IF direct THEN w0
                      ELSE [w0 EXCEPT !.mem.group.internal_port_range =
                                        [start |-> local_port + 1, stop |-> INTERNAL_PORT_MAX]],
                      host, runtime_port, local_port, selected_group_port, 1),
                    LAMBDA w1 : IF w1.raised # NoError THEN w1
                                ELSE [w1 EXCEPT !.ret = selected_group_port]))

\* LocalMasterLauncher.start(ports, timeout, debug): ports is a port or a list
LocalMasterLauncher_start(w, ports, up) ==
  Bind(IF ~ports.isinstance_list
       THEN IF /\ localhost_has_free_port(w, ports.v)
               /\ RuntimeGroup_has_free_port(w, ports.v, <<LOCALHOST>>)
            THEN [w EXCEPT !.ret = [master_port |-> ports.v, ports |-> <<>>]]
            ELSE [w EXCEPT !.raised = PortInUseError(ports.v)]
       ELSE Bind(RuntimeGroup_get_free_port(w, ports.l, FALSE),
                 LAMBDA w1 :
                   IF w1.raised # NoError THEN w1
                   ELSE [w1 EXCEPT !.ret = [master_port |-> w1.ret,
                                            ports |-> get_remaining_ports(ports.l, w1.ret)]]),
       LAMBDA w1 :
         IF w1.raised # NoError THEN w1
         ELSE LET master_port == w1.ret.master_port
                  remaining == w1.ret.ports
              IN
              \* Popen(["dask-scheduler", "--port", master_port]); time.sleep(timeout)
              Bind([w1 EXCEPT !.mem.cluster.master_launcher.process = TRUE,
                              !.remote[LOCALHOST].ports =
                                 IF up THEN @ \cup {master_port} ELSE @],
                   LAMBDA w2 :
                     IF localhost_has_free_port(w2, master_port)
                     THEN [w2 EXCEPT !.raised = MasterStartError(master_port)]
                     ELSE Bind([w2 EXCEPT !.mem.cluster.master_launcher.port = master_port],
                               LAMBDA w3 :
                          Bind(RuntimeGroup_expose_port_to_runtimes(w3, master_port,
                                                                    AnInt(NoPort), <<>>),
                               LAMBDA w4 : IF w4.raised # NoError THEN w4
                                           ELSE [w4 EXCEPT !.ret = remaining]))))

\* DaskCluster(runtime_group, ports): the cluster with its two launchers
DaskCluster(w, ports) ==
  [w EXCEPT !.mem = [cluster |->
                       [ports |-> ports,
                        master_launcher |-> [port |-> NoPort, process |-> FALSE],
                        worker_launcher |-> [ports |-> <<>>, ports_per_host |-> <<>>]]]
                    @@ @]

\* MasterWorkerCluster.start_master(master_port, timeout, debug)
MasterWorkerCluster_start_master(w, master_port, up) ==
  LET overwrite_port_list ==
        master_port = NoPort /\ ~RuntimeGroup_has_free_port(w, DEFAULT_MASTER_PORT, <<>>)
      ports == IF master_port # NoPort THEN AnInt(master_port)
               ELSE IF ~overwrite_port_list THEN AnInt(DEFAULT_MASTER_PORT)
               ELSE AList(w.mem.cluster.ports)
  IN Bind(LocalMasterLauncher_start(w, ports, up),
          LAMBDA w1 :
            IF w1.raised # NoError THEN w1
            ELSE IF overwrite_port_list
                 THEN [w1 EXCEPT !.mem.cluster.ports = w1.ret, !.ret = 0]
                 ELSE [w1 EXCEPT !.ret = 0])

\* RoundRobinLauncher._get_launch_command(master_port, worker_port, working_directory)
get_launch_command(master_port, worker_port, working_directory) ==
  Cmd("dask-worker", Str(worker_port), working_directory, Str(master_port))

\* RoundRobinLauncher._launch_single_worker(host, worker_index, master_port,
\* working_dir, debug): ret is the worker's port
launch_single_worker(w, host, worker_index, master_port, working_dir, debug, up) ==
  IF w.mem.cluster.worker_launcher.ports = <<>> THEN [w EXCEPT !.raised = NoPortsLeftError]
  ELSE
  Bind(RuntimeGroup_get_free_port(w, w.mem.cluster.worker_launcher.ports, FALSE), LAMBDA w1 :
  IF w1.raised # NoError THEN w1
  ELSE LET worker_port == w1.ret IN
  Bind([w1 EXCEPT !.mem.cluster.worker_launcher.ports = get_remaining_ports(@, worker_port)],
       LAMBDA w2 :
  Bind(RuntimeTask(w2, s_launch_dask_worker \o Str(worker_index)), LAMBDA w3 :
  LET task == w3.ret IN
  Bind(run_command(w3, task, PIP_INSTALL_COMMAND), LAMBDA w4 :
  Bind(run_command(w4, task, get_launch_command(master_port, worker_port, working_dir)),
       LAMBDA w5 :
  Bind(RuntimeGroup_execute_task(w5, [task |-> task, host |-> host, broadcast |-> FALSE,
                                      execute_async |-> TRUE, omit_on_join |-> TRUE,
                                      debug |-> debug, fail_rt |-> 1, fail_at |-> 0]),
       LAMBDA w6 :
         IF w6.raised # NoError THEN w6
         ELSE [w6 EXCEPT !.remote[host].ports = IF up THEN @ \cup {worker_port} ELSE @,
                         !.ret = worker_port]))))))

\* self._ports_per_host after worker_port has been recorded for host
ports_per_host_with(ports_per_host, host, worker_port) ==
  IF \E k \in 1..Len(ports_per_host) : ports_per_host[k].host = host
  THEN [k \in 1..Len(ports_per_host) |->
          IF ports_per_host[k].host = host
          THEN [ports_per_host[k] EXCEPT !.ports = Append(@, worker_port)]
          ELSE ports_per_host[k]]
  ELSE Append(ports_per_host, [host |-> host, ports |-> <<worker_port>>])

\* a launcher that starts every worker on the first runtime
runtime_index_of_first(runtime_count, worker_index) == 0

\* RoundRobinLauncher.start: the runtime where the next worker is started
runtime_index(runtime_count, worker_index) ==
  (runtime_count + worker_index) % runtime_count

\* the loop of RoundRobinLauncher.start from worker_index on
RECURSIVE launch_workers_loop(_, _, _, _, _, _)
launch_workers_loop(w, worker_index, worker_count, master_port, debug, up) ==
  IF worker_index >= worker_count \/ w.raised # NoError THEN w
  ELSE LET runtime_count == Len(w.mem.group.runtimes)
           at == runtime_index(runtime_count, worker_index) + 1
           host == hosts(w)[at]
       IN Bind(get_working_dir(w, w.mem.group.runtimes[at]), LAMBDA w1 :
          Bind(launch_single_worker(w1, host, worker_index, master_port, w1.ret, debug, up),
               LAMBDA w2 :
                 launch_workers_loop(
                   IF w2.raised # NoError THEN w2
                   ELSE [w2 EXCEPT !.mem.cluster.worker_launcher.ports_per_host =
                                      ports_per_host_with(@, host, w2.ret)],
                   worker_index + 1, worker_count, master_port, debug, up)))

\* WorkerLauncher.setup_worker_ssh_tunnels: the loop over the items of
\* ports_per_host from the j-th port of the k-th item on
RECURSIVE setup_worker_ssh_tunnels_loop(_, _, _)
setup_worker_ssh_tunnels_loop(w, k, j) ==
  LET ports_per_host == w.mem.cluster.worker_launcher.ports_per_host IN
  IF k > Len(ports_per_host) \/ w.raised # NoError THEN w
  ELSE IF j > Len(ports_per_host[k].ports) THEN setup_worker_ssh_tunnels_loop(w, k + 1, 1)
  ELSE Bind(RuntimeGroup_expose_port_from_runtime_to_group(w, ports_per_host[k].host,
                                                           ports_per_host[k].ports[j],
                                                           AnInt(NoPort)),
            LAMBDA w1 : setup_worker_ssh_tunnels_loop(w1, k, j + 1))

\* RoundRobinLauncher.start(worker_count, master_port, ports, debug)
RoundRobinLauncher_start(w, worker_count, master_port, ports, debug, up) ==
  Bind([w EXCEPT !.mem.cluster.worker_launcher.ports = ports], LAMBDA w0 :
  Bind(launch_workers_loop(w0, 0, worker_count, master_port, debug, up), LAMBDA w1 :
  IF w1.raised # NoError THEN w1
  ELSE Bind(setup_worker_ssh_tunnels_loop(w1, 1, 1), LAMBDA w2 :
         IF w2.raised # NoError THEN w2
         ELSE [w2 EXCEPT !.ret = w2.mem.cluster.worker_launcher.ports])))

\* MasterWorkerCluster.start_workers(count, debug); count 0 is None
MasterWorkerCluster_start_workers(w, count, debug, up) ==
  LET worker_count == IF count = 0 THEN Len(w.mem.group.runtimes) ELSE count
      master_port == w.mem.cluster.master_launcher.port
  IN IF master_port = NoPort THEN [w EXCEPT !.raised = AssertionError]
     ELSE Bind(RoundRobinLauncher_start(w, worker_count, master_port, w.mem.cluster.ports,
                                        debug, up),
               LAMBDA w1 : IF w1.raised # NoError THEN w1
                           ELSE [w1 EXCEPT !.mem.cluster.ports = w1.ret, !.ret = 0])

\* MasterWorkerCluster.start(worker_count, master_port, debug)
MasterWorkerCluster_start(w, worker_count, master_port, debug, up) ==
  Bind(MasterWorkerCluster_start_master(w, master_port, up), LAMBDA w1 :
    IF w1.raised # NoError THEN w1
    ELSE MasterWorkerCluster_start_workers(w1, worker_count, debug, up))

----------------------------------------------------------------------------
(* SpecCluster: a DaskCluster is started on a group some of whose hosts     *)
(* have a port in use; call.launcher_calls lists the calls of the           *)
(* launchers' start methods made so far and how each ended,                 *)
(* call.initial_ports is the pool the cluster was constructed with.         *)

\* the port pools the cluster is constructed with
PortPools == {[k \in 1..MaxListLen |-> 7000 + k - 1], <<7001, 7000>>}

\* the master_port arguments (NoPort: left out) and the worker counts (0: left out)
MasterPortArgs == {NoPort, 7000}
WorkerCounts == {0, 1, MaxRuntimes + 1}

\* at most one port is in use somewhere before the cluster is started
BusyBeforeStart(host_list) ==
  LET on == Range(host_list) \cup {LOCALHOST}
  IN {[h \in on |-> {}]}
       \cup {[h \in on |-> IF h = b THEN {p} ELSE {}] :
               b \in on, p \in {7000, DEFAULT_MASTER_PORT}}

ClusterInit ==
  /\ \E host_list \in HostLists, ports \in PortPools :
       \E busy \in BusyBeforeStart(host_list) :
          LET w == DaskCluster(ConstructedOn(host_list, busy), ports)
          IN /\ mem = w.mem
             /\ fs = w.fs /\ remote = w.remote /\ procs = w.procs
  /\ ex = NoExecution
  /\ gen = NoGenerator
  /\ call = [op |-> "none", n |-> 0, launcher_calls |-> <<>>,
              initial_ports |-> mem.cluster.ports]

\* the call of a launcher's start and how it ended
LauncherCall(launcher, w) == [launcher |-> launcher, raised |-> w.raised]

\* what a cluster call leaves in call
ClusterCall(op, worker_count, master_port, w, launcher_calls) ==
  [op |-> op, n |-> call.n + 1, worker_count |-> worker_count,
   master_port |-> master_port, raised |-> w.raised,
   tasks_before |-> Len(mem.group.tasks), ports_before |-> mem.cluster.ports,
   in_use_before |-> remote, initial_ports |-> call.initial_ports,
   launcher_calls |-> call.launcher_calls \o launcher_calls]

\* cluster.start_master(master_port) returns or raises
ClusterStartMaster ==
  /\ call.n < MaxClusterCalls
  /\ \E master_port \in MasterPortArgs, up \in BOOLEAN :
       LET w == MasterWorkerCluster_start_master(World, master_port, up)
       IN /\ Commit(w)
          /\ call' = ClusterCall("MasterWorkerCluster.start_master", 0, master_port, w,
                                 <<LauncherCall("master", w)>>)
  /\ UNCHANGED <<ex, gen>>

\* cluster.start_workers(count) returns or raises
ClusterStartWorkers ==
  /\ call.n < MaxClusterCalls
  /\ \E count \in WorkerCounts, up \in BOOLEAN :
       LET w == MasterWorkerCluster_start_workers(World, count, FALSE, up)
       IN /\ Commit(w)
          /\ call' = ClusterCall("MasterWorkerCluster.start_workers", count, NoPort, w,
                                 IF mem.cluster.master_launcher.port = NoPort THEN <<>>
                                 ELSE <<LauncherCall("worker", w)>>)
  /\ UNCHANGED <<ex, gen>>

\* cluster.start(worker_count) returns or raises
ClusterStart ==
  /\ call.n < MaxClusterCalls
  /\ \E worker_count \in WorkerCounts, up \in BOOLEAN :
       LET w1 == MasterWorkerCluster_start_master(World, NoPort, up)
           w == MasterWorkerCluster_start(World, worker_count, NoPort, FALSE, up)
       IN /\ Commit(w)
          /\ call' = ClusterCall("MasterWorkerCluster.start", worker_count, NoPort, w,
                                 IF w1.raised # NoError THEN <<LauncherCall("master", w1)>>
                                 ELSE <<LauncherCall("master", w1), LauncherCall("worker", w)>>)
  /\ UNCHANGED <<ex, gen>>

ClusterNext ==
  \/ ClusterStartMaster
  \/ ClusterStartWorkers
  \/ ClusterStart

SpecCluster == ClusterInit /\ [][ClusterNext]_vars

\* the tasks the call that has just returned dispatched, in dispatch order
LaunchedByCall == SubSeq(mem.group.tasks, call.tasks_before + 1, Len(mem.group.tasks))

\* C13: the worker launcher's start is called only after a call of the master
\* launcher's start has returned without raising.
C13_WorkersStartOnlyAfterMasterStarted ==
  \A k \in 1..Len(call.launcher_calls) :
    call.launcher_calls[k].launcher = "worker" =>
      \E j \in 1..(k - 1) :
        /\ call.launcher_calls[j].launcher = "master"
        /\ call.launcher_calls[j].raised = NoError

\* C14: start_master without a port, the default master port being in use on a
\* runtime of the group or on the manager, does not raise PortInUseError: the
\* master is started on the first port of the pool that is free in the group.
C14_DefaultPortConflictFallsBackToPool ==
  (/\ call.op = "MasterWorkerCluster.start_master"
   /\ call.master_port = NoPort
   /\ \E h \in DOMAIN call.in_use_before :
        DEFAULT_MASTER_PORT \in call.in_use_before[h].ports) =>
     /\ call.raised.type # "PortInUseError"
     /\ call.raised = NoError =>
          \E k \in 1..Len(call.ports_before) :
            /\ mem.cluster.master_launcher.port = call.ports_before[k]
            /\ \A h \in Range(hosts(World)) :
                 call.ports_before[k] \notin call.in_use_before[h].ports
            /\ \A j \in 1..(k - 1) :
                 \E h \in Range(hosts(World)) :
                   call.ports_before[j] \in call.in_use_before[h].ports

\* the worker ports recorded in ports_per_host, host after host
RECURSIVE RecordedWorkerPorts(_)
RecordedWorkerPorts(k) ==
  IF k > Len(mem.cluster.worker_launcher.ports_per_host) THEN <<>>
  ELSE mem.cluster.worker_launcher.ports_per_host[k].ports \o RecordedWorkerPorts(k + 1)

IsSuffix(s, t) == Len(s) <= Len(t) /\ s = SubSeq(t, Len(t) - Len(s) + 1, Len(t))

\* the call that has just returned started the master on a port of the pool
MasterPortTakenFromPool ==
  /\ call.op \in {"MasterWorkerCluster.start_master", "MasterWorkerCluster.start"}
  /\ call.master_port = NoPort
  /\ \E h \in Range(hosts(World)) : DEFAULT_MASTER_PORT \in call.in_use_before[h].ports
  /\ call.launcher_calls[Len(call.launcher_calls)] \in
       {[launcher |-> "master", raised |-> NoError]}
         \cup {[launcher |-> "worker", raised |-> e] : e \in {call.raised}}

\* C16: after a cluster start the worker ports recorded in ports_per_host are
\* pairwise distinct and come from the pool the cluster was constructed with,
\* neither they nor a master port taken from the pool are in the pool the
\* cluster stores, and the stored pool is a suffix of the initial one.
C16_StoredPoolHoldsNoUsedPort ==
  call.op # "none" =>
    LET worker_ports == RecordedWorkerPorts(1) IN
    /\ \A i, j \in 1..Len(worker_ports) : i # j => worker_ports[i] # worker_ports[j]
    /\ Range(worker_ports) \subseteq Range(call.initial_ports)
    /\ Range(worker_ports) \cap Range(mem.cluster.ports) = {}
    /\ MasterPortTakenFromPool =>
         mem.cluster.master_launcher.port \notin Range(mem.cluster.ports)
    /\ IsSuffix(mem.cluster.ports, call.initial_ports)

----------------------------------------------------------------------------
(* SpecDispatch: the task t, composed of commands and functions, is handed  *)
(* to runtimes with and without a working dir of the user's; the child      *)
(* processes run.                                                            *)

DispatchInit ==
  /\ \E n \in 1..MaxRuntimes, shape \in TaskShapes :
       \E dirs \in [1..n -> UserDirs \cup {NoPath}] :
         LET w == Compose(Constructed(dirs), T1, shape, 1)
         IN mem = w.mem /\ fs = w.fs /\ remote = w.remote /\ procs = w.procs
  /\ ex = NoExecution
  /\ gen = NoGenerator
  /\ call = NoCall

\* runtime.execute_task(t, execute_async, omit_on_join, debug) returns or raises
DispatchExecuteTask ==
  /\ call.n < MaxCalls
  /\ \E r \in Runtimes, execute_async \in BOOLEAN, omit_on_join \in BOOLEAN,
        debug \in BOOLEAN, fail_at \in FailAt :
       /\ execute_async => fail_at = 0
       /\ LET w == Runtime_execute_task(World, r, T1, execute_async, omit_on_join, debug,
                                        fail_at)
          IN /\ Commit(w)
             /\ call' = [op |-> "Runtime.execute_task", n |-> call.n + 1, r |-> r,
                         task |-> T1, execute_async |-> execute_async,
                         omit_on_join |-> omit_on_join, debug |-> debug,
                         raised |-> w.raised]
  /\ UNCHANGED <<ex, gen>>

DispatchNext ==
  \/ DispatchExecuteTask
  \/ ProcessRun

SpecDispatch == DispatchInit /\ [][DispatchNext]_vars

\* the log entry is the output of a command run in the working dir of runtime r
\* with the env variables of r; the working dir is the user's if r made none
RanInWorkingDirOf(entry, r) ==
  /\ mem.runtimes[r].working_dir # NoPath
  /\ entry.cwd = mem.runtimes[r].working_dir
  /\ remote[mem.runtimes[r].host].mkdtemp = 0 => entry.cwd \in UserDirs
  /\ entry.env = mem.dicts[mem.runtimes[r].env_variables]

\* C24: every command of a task executed through Runtime.execute_task, in the
\* manager's process or in a child process, runs in the working dir of the
\* runtime, which is the path the user supplied if there is one, and with the
\* env variables of the runtime.
C24_CommandsRunInWorkingDir ==
  /\ (call.op = "Runtime.execute_task" /\ ~call.execute_async) =>
        \A k \in 1..Len(mem.tasks[call.task].execution_log) :
          RanInWorkingDirOf(mem.tasks[call.task].execution_log[k], call.r)
  /\ \A p \in 1..Len(procs) :
        (procs[p].status = "exited" /\ mem.tasks[procs[p].task].managed_list = p) =>
          \A k \in 1..Len(mem.tasks[procs[p].task].execution_log) :
            RanInWorkingDirOf(mem.tasks[procs[p].task].execution_log[k], procs[p].runtime)

\* a child process has run the commands of the task on a runtime constructed
\* with a working dir
C24_Witness ==
  \E p \in 1..Len(procs) :
    /\ procs[p].status = "exited"
    /\ mem.tasks[procs[p].task].managed_list = p
    /\ Len(mem.tasks[procs[p].task].execution_log) >= 2
    /\ mem.runtimes[procs[p].runtime].working_dir \in UserDirs

----------------------------------------------------------------------------
(* SpecCopy: the task t is composed of commands and functions while deep    *)
(* copies are made of it and of its copies.                                  *)

\* the positions of the RUN_FUNCTION steps in the step list of task t
FunctionPositions(t) ==
  {k \in 1..Len(mem.tasks[t].task_steps) :
     mem.steps[mem.tasks[t].task_steps[k]].type = TYPE_RUN_FUNCTION}

\* copy.deepcopy(task) returns; call keeps how many RUN_FUNCTION steps the task
\* had
TaskDeepcopy ==
  /\ Len(mem.tasks) < 1 + MaxCopies
  /\ \E t \in 1..Len(mem.tasks) :
       LET w == deepcopy(World, t)
       IN /\ Commit(w)
          /\ call' = [op |-> "RuntimeTask.__deepcopy__", n |-> 0, task |-> t, ret |-> w.ret,
                      functions |-> Cardinality(FunctionPositions(t))]
  /\ UNCHANGED <<ex, gen>>

CopyNext ==
  \/ TaskRunCommand
  \/ TaskRunFunction
  \/ TaskDeepcopy

SpecCopy == TaskInit /\ [][CopyNext]_vars

\* the path on the manager of the pickled wrapper of the k-th step of task t:
\* the file its first sub-step sends
WrapperPath(t, k) ==
  mem.steps[mem.steps[mem.tasks[t].task_steps[k]].function_steps[1]].local_path

\* the path on the manager to which the return of the k-th step of task t is
\* fetched
ReturnPath(t, k) ==
  mem.steps[mem.steps[mem.tasks[t].task_steps[k]].function_steps[5]].local_path

\* the RUN_FUNCTION steps of all tasks
AllFunctionPositions ==
  UNION {{<<t, k>> : k \in FunctionPositions(t)} : t \in 1..Len(mem.tasks)}

\* C25: the wrapper paths and the return paths on the manager of a task with
\* RUN_FUNCTION steps and of all its deep copies are pairwise distinct, and a
\* copy has exactly one return path for each RUN_FUNCTION step of the task it
\* was copied from.
C25_CopiesShareNoPaths ==
  /\ \A a \in AllFunctionPositions, b \in AllFunctionPositions :
        /\ a # b => /\ WrapperPath(a[1], a[2]) # WrapperPath(b[1], b[2])
                    /\ ReturnPath(a[1], a[2]) # ReturnPath(b[1], b[2])
        /\ WrapperPath(a[1], a[2]) # ReturnPath(b[1], b[2])
  /\ \A t \in 1..Len(mem.tasks) :
        /\ Len(mem.tasks[t].function_return_pkl_paths) = Cardinality(FunctionPositions(t))
        /\ Cardinality(Range(mem.tasks[t].function_return_pkl_paths))
             = Cardinality(FunctionPositions(t))
        /\ Range(mem.tasks[t].function_return_pkl_paths)
             = {ReturnPath(t, k) : k \in FunctionPositions(t)}
  /\ call.op = "RuntimeTask.__deepcopy__" =>
        Len(mem.tasks[call.ret].function_return_pkl_paths) = call.functions

\* a copy was made of a copy of a task with two RUN_FUNCTION steps
C25_Witness ==
  /\ call.op = "RuntimeTask.__deepcopy__"
  /\ call.task # T1
  /\ call.functions >= 2
  /\ Cardinality(FunctionPositions(call.ret)) >= 2

----------------------------------------------------------------------------
(* SpecKeys: process keys are built for hosts, task names and ports and     *)
(* then classified.                                                         *)

\* host strings: a name, the manager, IPv6 literals
KeyHosts ==
  {Host(1), Host(2), LOCALHOST, <<":", ":">>, <<":", ":", "1">>,
   <<"f", "e", "8", "0", ":", ":", "1">>}
KeyTaskNames == {<<"t">>, <<"a", ":", ":", "b">>}
KeyPorts == {NoPort} \cup PortValues

KeysInit ==
  /\ mem = Memory0 /\ fs = FileSystem0 /\ remote = <<>> /\ procs = <<>>
  /\ ex = NoExecution
  /\ gen = NoGenerator
  /\ call = NoCall

\* what building a key and classifying it leaves in call
KeyCall(op, host, key) ==
  [op |-> op, n |-> 0, host |-> host, key |-> key,
   is_runtime_task_process |-> is_runtime_task_process(key),
   is_port_exposure_process |-> is_port_exposure_process(key)]

\* _create_process_key_for_task_execution(task) on a runtime of some host
KeysForTaskExecution ==
  /\ \E host \in KeyHosts, name \in KeyTaskNames :
       call' = KeyCall("create_process_key_for_task_execution", host,
                       create_process_key_for_task_execution(host, name))
  /\ UNCHANGED <<mem, fs, remote, procs, ex, gen>>

\* _create_process_key_for_port_exposure(direction, local_port, runtime_port) on
\* a runtime of some host
KeysForPortExposure ==
  /\ \E host \in KeyHosts, direction \in {PORT_FROM_RUNTIME, PORT_TO_RUNTIME},
        local_port \in KeyPorts, runtime_port \in KeyPorts :
       /\ local_port # NoPort \/ runtime_port # NoPort
       /\ call' = KeyCall("create_process_key_for_port_exposure", host,
                          create_process_key_for_port_exposure(host, direction, local_port,
                                                               runtime_port))
  /\ UNCHANGED <<mem, fs, remote, procs, ex, gen>>

KeysNext ==
  \/ KeysForTaskExecution
  \/ KeysForPortExposure

SpecKeys == KeysInit /\ [][KeysNext]_vars

\* C21: for every host, the key built for a task process is classified as a
\* task process and not as a port exposure, and the keys built for the two
\* tunnel directions are classified as port exposures and not as task processes.
C21_KeysClassifiedByKind ==
  /\ call.op = "create_process_key_for_task_execution" =>
       call.is_runtime_task_process /\ ~call.is_port_exposure_process
  /\ call.op = "create_process_key_for_port_exposure" =>
       call.is_port_exposure_process /\ ~call.is_runtime_task_process

----------------------------------------------------------------------------
(* SpecTunnel: one port exposure is made on a runtime or on the group; call *)
(* keeps what the runtimes' process maps and the group's keys were before.  *)

\* what an exposure leaves in call: ret is the key a runtime's exposure returns,
\* group_port the port a group's exposure returns
TunnelCall(op, r, local_port, runtime_port, w) ==
  [op |-> op, n |-> 1, r |-> r, local_port |-> local_port, runtime_port |-> runtime_port,
   raised |-> w.raised, ret |-> IF w.raised # NoError THEN <<>> ELSE w.ret,
   group_port |-> NoPort, group_port_arg |-> AnInt(NoPort), procs_before |-> Len(procs),
   processes_before |-> [k \in Runtimes |-> mem.runtimes[k].processes],
   proc_keys_before |-> mem.group.proc_keys,
   in_use_before |-> remote,
   internal_port_range_before |-> mem.group.internal_port_range]

\* runtime.expose_port_to_runtime(local_port, runtime_port) returns or raises
TunnelToRuntime ==
  /\ call = NoCall
  /\ \E r \in Runtimes, local_port \in PortValues, runtime_port \in KeyPorts :
       LET w == Runtime_expose_port_to_runtime(World, r, local_port, runtime_port)
       IN /\ Commit(w)
          /\ call' = TunnelCall("Runtime.expose_port_to_runtime", r, local_port,
                                runtime_port, w)
  /\ UNCHANGED <<ex, gen>>

\* runtime.expose_port_from_runtime(runtime_port, local_port) returns or raises
TunnelFromRuntime ==
  /\ call = NoCall
  /\ \E r \in Runtimes, runtime_port \in PortValues, local_port \in KeyPorts :
       LET w == Runtime_expose_port_from_runtime(World, r, runtime_port, local_port)
       IN /\ Commit(w)
          /\ call' = TunnelCall("Runtime.expose_port_from_runtime", r, local_port,
                                runtime_port, w)
  /\ UNCHANGED <<ex, gen>>

\* group.expose_port_to_runtimes(local_port, runtime_port) returns or raises
TunnelToRuntimes ==
  /\ call = NoCall
  /\ \E local_port \in PortValues, runtime_port \in KeyPorts :
       LET w == RuntimeGroup_expose_port_to_runtimes(World, local_port, AnInt(runtime_port),
                                                     <<>>)
       IN /\ Commit(w)
          /\ call' = [TunnelCall("RuntimeGroup.expose_port_to_runtimes", 0, local_port,
                                 runtime_port, w)
                         EXCEPT !.ret = <<>>,
                                !.group_port = IF w.raised # NoError THEN NoPort ELSE w.ret]
  /\ UNCHANGED <<ex, gen>>

\* group.expose_port_from_runtime_to_group(host, runtime_port, group_port) returns
\* or raises
TunnelFromRuntimeToGroup ==
  /\ call = NoCall
  /\ \E r \in Runtimes, runtime_port \in PortValues, group_port \in RuntimePortArgs :
       LET w == RuntimeGroup_expose_port_from_runtime_to_group(World, mem.runtimes[r].host,
                                                               runtime_port, group_port)
       IN /\ Commit(w)
          /\ call' = [TunnelCall("RuntimeGroup.expose_port_from_runtime_to_group", r, NoPort,
                                 runtime_port, w)
                         EXCEPT !.ret = <<>>,
                                !.group_port_arg = group_port,
                                !.group_port = IF w.raised # NoError THEN NoPort ELSE w.ret]
  /\ UNCHANGED <<ex, gen>>

TunnelNext ==
  \/ TunnelToRuntime
  \/ TunnelFromRuntime
  \/ TunnelToRuntimes
  \/ TunnelFromRuntimeToGroup

SpecTunnel == PortsInit /\ [][TunnelNext]_vars

\* the call exposed a port to the port of the same number
SamePort == call.runtime_port = NoPort \/ call.local_port = NoPort
              \/ call.runtime_port = call.local_port

\* C22: on a runtime whose host is LOCALHOST, expose_port_to_runtime(p, p) and
\* expose_port_from_runtime(p, p), the second port given or left out, return the
\* empty key, start no process and leave the runtime's process map as it was;
\* an exposure on the group records no key for such a runtime.
C22_NoTunnelFromLocalhostToItself ==
  /\ (/\ call.op \in {"Runtime.expose_port_to_runtime", "Runtime.expose_port_from_runtime"}
      /\ mem.runtimes[call.r].host = LOCALHOST
      /\ SamePort) =>
        /\ call.raised = NoError
        /\ call.ret = <<>>
        /\ Len(procs) = call.procs_before
        /\ mem.runtimes[call.r].processes = call.processes_before[call.r]
  /\ (call.op = "RuntimeGroup.expose_port_to_runtimes" /\ SamePort) =>
        \A r \in Runtimes :
          mem.runtimes[r].host = LOCALHOST =>
            /\ mem.runtimes[r].processes = call.processes_before[r]
            /\ \A k \in 1..Len(mem.group.proc_keys) :
                 ~IsPrefix(LOCALHOST \o PROCESS_KEY_DELIMITER, mem.group.proc_keys[k])

\* a runtime on LOCALHOST was asked to expose a port to itself, the runtime port
\* left out
C22_Witness ==
  /\ call.op = "Runtime.expose_port_to_runtime"
  /\ mem.runtimes[call.r].host = LOCALHOST
  /\ call.runtime_port = NoPort
  /\ call.raised = NoError

\* host::direction::a::b
TunnelKey(host, direction, a, b) ==
  host \o <<":", ":">> \o direction \o <<":", ":">> \o Str(a) \o <<":", ":">> \o Str(b)

\* the ports of the tunnel the call made, a port left out being the other one
TunnelLocalPort == IF call.local_port = NoPort THEN call.runtime_port ELSE call.local_port
TunnelRuntimePort == IF call.runtime_port = NoPort THEN call.local_port ELSE call.runtime_port

\* the call has registered a tunnel of its runtime under the key
RegisteredUnder(key) ==
  /\ call.ret = key
  /\ key \in DOMAIN mem.runtimes[call.r].processes
  /\ key \notin DOMAIN call.processes_before[call.r]

\* the call made a tunnel
TunnelMade(op) == call.op = op /\ call.raised = NoError /\ call.ret # <<>>

FreeOfRangeBefore ==
  {p \in call.internal_port_range_before.start..(call.internal_port_range_before.stop - 1) :
     p \notin call.in_use_before[LOCALHOST].ports}

\* the ports on which the manager listens since the call
ManagerPortsTaken == remote[LOCALHOST].ports \ call.in_use_before[LOCALHOST].ports

\* C30: expose_port_from_runtime_to_group, the group port left out and so being
\* the runtime port, takes the group port as intermediate
\* port on the manager when it is free there, leaving the internal range as it
\* is; otherwise it takes the lowest port of the internal range that is free on
\* the manager, the range then beginning right after that port, and raises
\* NoPortsLeftError, making no tunnel, only if no port of the range is free.
C30_IntermediatePortIsFirstFreeOfRange ==
  (/\ call.op = "RuntimeGroup.expose_port_from_runtime_to_group"
   /\ Not(call.group_port_arg)
   /\ mem.runtimes[call.r].host # LOCALHOST
   /\ call.raised \notin {ValueError, PortInUseError(call.runtime_port)}) =>
     IF call.runtime_port \notin call.in_use_before[LOCALHOST].ports
     THEN /\ call.raised = NoError
          /\ ManagerPortsTaken = {call.runtime_port}
          /\ mem.group.internal_port_range = call.internal_port_range_before
     ELSE IF FreeOfRangeBefore = {}
     THEN call.raised = NoPortsLeftError /\ Len(procs) = call.procs_before
     ELSE LET first == CHOOSE p \in FreeOfRangeBefore : \A q \in FreeOfRangeBefore : p <= q
          IN /\ call.raised = NoError
             /\ ManagerPortsTaken = {first}
             /\ mem.group.internal_port_range.start = first + 1

\* the keys runtime r has registered since the call began
NewKeys(r) == DOMAIN mem.runtimes[r].processes \ DOMAIN call.processes_before[r]

\* the keys the group has recorded since the call began
NewProcKeys ==
  {mem.group.proc_keys[k] : k \in (Len(call.proc_keys_before) + 1)..Len(mem.group.proc_keys)}

\* the ports that may serve as intermediate port on the manager
IntermediatePorts == PortValues \cup (INTERNAL_PORT_MIN..INTERNAL_PORT_MAX)

\* the source has the one new tunnel from manager port m to its runtime port,
\* every other runtime the one new tunnel from its group port to manager port m
GroupTunnelsOver(m) ==
  \A r \in Runtimes :
    LET host == mem.runtimes[r].host
    IN IF r = call.r
       THEN NewKeys(r) = {TunnelKey(host, PORT_FROM_RUNTIME, m, call.runtime_port)}
       ELSE NewKeys(r) = {TunnelKey(host, PORT_TO_RUNTIME, call.group_port, m)}

\* the port returned is the group port asked for: the port given, the runtime
\* port if none was given, an entry of the list given
GroupPortReturned ==
  IF Not(call.group_port_arg) THEN call.group_port = call.runtime_port
  ELSE IF call.group_port_arg.isinstance_list
  THEN call.group_port \in Range(call.group_port_arg.l)
  ELSE call.group_port = call.group_port_arg.v

\* C31 as stated: after a successful expose_port_from_runtime_to_group(source,
\* runtime_port, group_port) there is an intermediate manager port m such that
\* the source runtime has exactly one new -L tunnel, from manager port m to its
\* runtime port, and every other runtime exactly one new -R tunnel, from its
\* group port to manager port m; the group has recorded exactly these keys, and
\* the group port of the tunnels is the port returned.
C31_GroupExposureTunnelsEveryRuntime ==
  (call.op = "RuntimeGroup.expose_port_from_runtime_to_group" /\ call.raised = NoError) =>
     /\ GroupPortReturned
     /\ \E m \in IntermediatePorts : GroupTunnelsOver(m)
     /\ NewProcKeys = UNION {NewKeys(r) : r \in Runtimes}

\* as GroupTunnelsOver(m), but a runtime on LOCALHOST whose tunnel would lead
\* from a port of the manager to the same port has no new tunnel
GroupTunnelsOverButToItself(m) ==
  \A r \in Runtimes :
    LET host == mem.runtimes[r].host
        port == IF r = call.r THEN call.runtime_port ELSE call.group_port
    IN IF host = LOCALHOST /\ port = m
       THEN NewKeys(r) = {}
       ELSE IF r = call.r
       THEN NewKeys(r) = {TunnelKey(host, PORT_FROM_RUNTIME, m, call.runtime_port)}
       ELSE NewKeys(r) = {TunnelKey(host, PORT_TO_RUNTIME, call.group_port, m)}

\* the ports of the manager that were free before the call and may serve as
\* intermediate port: the group port, or one of the internal range
IntermediateBefore ==
  {m \in IntermediatePorts :
     /\ m \notin call.in_use_before[LOCALHOST].ports
     /\ \/ m = call.group_port
        \/ m \in call.internal_port_range_before.start..(call.internal_port_range_before.stop - 1)}

\* C31: after a successful expose_port_from_runtime_to_group(source,
\* runtime_port, group_port) there is an intermediate port m, free on the
\* manager before the call, such that the source runtime has exactly one new -L
\* tunnel, from manager port m to its runtime port, and every other runtime
\* exactly one new -R tunnel, from its group port to manager port m, except
\* that a runtime on LOCALHOST whose tunnel would lead from port m to port m
\* has none; the group has recorded exactly the new keys, and the group port of
\* the tunnels is the port returned.
C31_GroupExposureTunnelsButToItself ==
  (call.op = "RuntimeGroup.expose_port_from_runtime_to_group" /\ call.raised = NoError) =>
     /\ GroupPortReturned
     /\ \E m \in IntermediateBefore : GroupTunnelsOverButToItself(m)
     /\ NewProcKeys = UNION {NewKeys(r) : r \in Runtimes}

\* a group of two runtimes has exposed a port of one of them, the group port
\* being in use on the manager: the source has its -L tunnel over an
\* intermediate port of the internal range, the other runtime its -R tunnel
C31_Witness ==
  /\ call.op = "RuntimeGroup.expose_port_from_runtime_to_group"
  /\ call.raised = NoError
  /\ Len(mem.group.runtimes) = 2
  /\ mem.runtimes[call.r].host # LOCALHOST
  /\ \A r \in Runtimes : NewKeys(r) # {}
  /\ call.group_port \in call.in_use_before[LOCALHOST].ports
  /\ Len(mem.group.proc_keys) = Len(call.proc_keys_before) + 2

\* the group ports the call may choose from, in the order given
GroupPortCandidates ==
  IF Not(call.group_port_arg) THEN <<call.runtime_port>>
  ELSE IF call.group_port_arg.isinstance_list THEN call.group_port_arg.l
  ELSE <<call.group_port_arg.v>>

\* the port was free, before the call, on every runtime other than the source
FreeOffSource(port) ==
  \A r \in Runtimes :
    mem.runtimes[r].host # mem.runtimes[call.r].host =>
      port \notin call.in_use_before[mem.runtimes[r].host].ports

\* C32: expose_port_from_runtime_to_group resolves the group port against the
\* runtimes other than the source, for a port and for a list of ports alike:
\* the group port chosen is the first candidate that is free on every runtime
\* other than the source, whatever is in use on the source host, and the call
\* fails for want of a group port only if no candidate is.
C32_GroupPortResolvedOffSource ==
  call.op = "RuntimeGroup.expose_port_from_runtime_to_group" =>
    LET passing == {k \in 1..Len(GroupPortCandidates) : FreeOffSource(GroupPortCandidates[k])}
    IN IF passing = {}
       THEN call.raised \in {NoPortsLeftError, PortInUseError(GroupPortCandidates[1])}
       ELSE /\ call.raised = NoError
            /\ \E k \in passing : /\ call.group_port = GroupPortCandidates[k]
                                  /\ \A j \in passing : k <= j

----------------------------------------------------------------------------
(* SpecPaths: a task of file transfers whose remote paths are absolute,     *)
(* begin with "./", "../" or ".", or are left out is executed on a          *)
(* connection in a working directory.                                       *)

MaxFileSteps == 2

PathsSendRemotePaths ==
  {<<>>, <<".", "/", "a">>, <<".", "/", "d", "/", "a">>, <<".", ".", "/", "x">>,
   <<".", "x">>, <<"/", "r", "/", "a">>}
PathsGetRemotePaths == PathsSendRemotePaths \ {<<>>}
PathsWorkingDirs == {<<"/", "w">>, <<"/", "v", "/", "w">>}

PathsCanCompose == ex.pc = "idle" /\ Len(mem.tasks[T1].task_steps) < MaxFileSteps

\* task.send_file(local_path, remote_path)
PathsSendFile ==
  /\ PathsCanCompose
  /\ \E l \in LocalPaths, r \in PathsSendRemotePaths : Commit(send_file(World, T1, l, r))
  /\ UNCHANGED <<ex, gen, call>>

\* task.get_file(remote_path, local_path)
PathsGetFile ==
  /\ PathsCanCompose
  /\ \E r \in PathsGetRemotePaths, l \in LocalPaths \cup {NoPath} :
        Commit(get_file(World, T1, r, l))
  /\ UNCHANGED <<ex, gen, call>>

\* task.execute(connection) is called; the remote paths the steps were given
\* are kept for comparison
PathsExecute ==
  /\ ex.pc = "idle"
  /\ mem.tasks[T1].task_steps # <<>>
  /\ \E host \in ConnectionHosts, cwd \in PathsWorkingDirs :
        LET x == execute_begin(World, T1, host, cwd, FALSE, 0)
        IN Commit(x.w) /\ ex' = x.e
  /\ call' = [op |-> "RuntimeTask.execute", n |-> call.n,
              remote_paths |-> [k \in 1..Len(mem.tasks[T1].task_steps) |->
                                  mem.steps[mem.tasks[T1].task_steps[k]].remote_path]]
  /\ UNCHANGED gen

\* the connection has transferred the file and execute goes on
PathsExecuteStep ==
  /\ ex.pc = "running"
  /\ LET x == execute_step([w |-> World, e |-> ex], 0)
     IN Commit(x.w) /\ ex' = x.e
  /\ UNCHANGED <<gen, call>>

PathsNext ==
  \/ PathsSendFile
  \/ PathsGetFile
  \/ PathsExecute
  \/ PathsExecuteStep

SpecPaths == TaskInit /\ [][PathsNext]_vars

\* the transfers made so far: ex.ops[k + 1] is the transfer of step k
Transfers == 1..(Len(ex.ops) - 1)

\* the remote path of a transfer follows the rules for the path the step was
\* given: left out (SEND_FILE), beginning with "./", absolute, or beginning
\* with "." otherwise
FollowsRelativization(given, local, used) ==
  IF given = NoPath THEN used = PathJoin(ex.working_dir, PathTail(local))
  ELSE IF StartsWith(given, <<".", "/">>) THEN used = ex.working_dir \o <<"/">> \o Slice2(given)
  ELSE IF StartsWith(given, <<"/">>) THEN used = given
  ELSE IF StartsWith(given, <<".">>) THEN used # PathJoin(ex.working_dir, Slice2(given))
  ELSE TRUE

\* C33: SEND_FILE and GET_FILE resolve the remote path by the same rules:
\* "./<rest>" becomes <working dir>/<rest>, the sub-directories of <rest> kept;
\* a path that begins with "." but not with "./" ("../x", ".x") is not
\* rewritten that way; an absolute path is used as it is; and a remote path
\* left out of SEND_FILE becomes <working dir>/basename(local path).
C33_SameRelativizationForSendAndGet ==
  call.op = "RuntimeTask.execute" =>
    \A k \in Transfers :
      FollowsRelativization(call.remote_paths[k], ex.ops[k + 1].local, ex.ops[k + 1].remote)

\* the log file of the execution of task t on runtime r
LogFileOf(t, r) == LogFilePath(mem.runtimes[r].host, mem.tasks[t].name, 0)

\* C34: once a task dispatched with Runtime.execute_task has run, in the
\* manager's process or in a child process, execution_log_file_path of the
\* manager's task object is the log file of that execution.
C34_LogFilePathSetAfterDispatch ==
  /\ (call.op = "Runtime.execute_task" /\ ~call.execute_async) =>
        mem.tasks[call.task].execution_log_file_path = LogFileOf(call.task, call.r)
  /\ \A p \in 1..Len(procs) :
        (procs[p].status = "exited" /\ mem.tasks[procs[p].task].managed_list = p) =>
          mem.tasks[procs[p].task].execution_log_file_path
            = LogFileOf(procs[p].task, procs[p].runtime)

----------------------------------------------------------------------------
(* SpecMaster: a DaskCluster or a HyperoptCluster is constructed on a group *)
(* some of whose hosts have ports in use, and the start method of its       *)
(* master launcher is called.  mongod --fork returns once the daemon        *)
(* listens, and fails if it cannot bind its port.                           *)

s_mongodb == <<"m", "o", "n", "g", "o", "d", "b">>
PermissionError == [type |-> "PermissionError"]

\* the dbpath arguments: left out, or a directory of the user
DbPaths == {NoPath, <<"/", "d", "b">>}

\* HyperoptCluster(runtime_group, dbpath=dbpath); permitted is whether
\* os.makedirs may create the directory
HyperoptCluster(w, dbpath, permitted) ==
  LET default == PathJoin(main_directory, s_mongodb)
      cluster(path) == [kind |-> "HyperoptCluster",
                        master_launcher |-> [port |-> NoPort, process |-> FALSE,
                                             dbpath |-> path]]
  IN IF dbpath # NoPath
     THEN IF default \notin w.fs.dirs /\ ~permitted
          THEN [w EXCEPT !.raised = PermissionError]
          ELSE [w EXCEPT !.mem = [cluster |-> cluster(default)] @@ @,
                         !.fs.dirs = @ \cup {default}]
     ELSE [w EXCEPT !.mem = [cluster |-> cluster(dbpath)] @@ @]

\* os.system(self.get_mongod_start_cmd()): mongod is started with the
\* launcher's dbpath on the launcher's port; works is whether it finds its
\* files.  ret is the return code, 48 when the port is taken
mongod_start(w, works) ==
  LET port == w.mem.cluster.master_launcher.port
  IN IF ~works THEN [w EXCEPT !.ret = 100]
     ELSE IF ~localhost_has_free_port(w, port) THEN [w EXCEPT !.ret = 48]
     ELSE [w EXCEPT !.remote[LOCALHOST].ports = @ \cup {port},
                    !.mem.cluster.master_launcher.process = TRUE,
                    !.ret = 0]

\* LocalMongoLauncher.start(ports, timeout, debug)
LocalMongoLauncher_start(w, ports, works) ==
  Bind(IF ~ports.isinstance_list
       THEN IF /\ localhost_has_free_port(w, ports.v)
               /\ RuntimeGroup_has_free_port(w, ports.v, <<LOCALHOST>>)
            THEN [w EXCEPT !.mem.cluster.master_launcher.port = ports.v,
                           !.ret = [master_port |-> ports.v, ports |-> <<>>]]
            ELSE [w EXCEPT !.raised = PortInUseError(ports.v)]
       ELSE Bind(RuntimeGroup_get_free_port(w, ports.l, FALSE),
                 LAMBDA w1 :
                   IF w1.raised # NoError THEN w1
                   ELSE [w1 EXCEPT !.mem.cluster.master_launcher.port = w1.ret,
                                   !.ret = [master_port |-> w1.ret,
                                            ports |-> get_remaining_ports(ports.l, w1.ret)]]),
       LAMBDA w1 :
         IF w1.raised # NoError THEN w1
         ELSE LET master_port == w1.ret.master_port
                  remaining == w1.ret.ports
              IN Bind(mongod_start(w1, works), LAMBDA w2 :
                 IF w2.ret # 0 THEN [w2 EXCEPT !.raised = MasterStartError(master_port)]
                 ELSE IF localhost_has_free_port(w2, master_port)
                 THEN [w2 EXCEPT !.raised = MasterStartError(master_port)]
                 ELSE Bind(RuntimeGroup_expose_port_to_runtimes(w2, master_port,
                                                                AnInt(NoPort), <<>>),
                           LAMBDA w3 : IF w3.raised # NoError THEN w3
                                       ELSE [w3 EXCEPT !.ret = remaining])))

\* the ports arguments of start: a port or a list of ports
MasterPorts == RuntimePortArgs \ {AnInt(NoPort)}

NotConstructed == "cluster" \notin DOMAIN mem

\* what a call of SpecMaster leaves in call
MasterCall(op, dbpath, ports, w) ==
  [op |-> op, n |-> call.n + 1, dbpath |-> dbpath, ports |-> ports, raised |-> w.raised,
   in_use_before |-> remote,
   port_before |-> IF NotConstructed THEN NoPort ELSE mem.cluster.master_launcher.port]

\* DaskCluster(group) returns
MasterDaskCluster ==
  /\ NotConstructed
  /\ \E ports \in PortPools :
       LET w == [DaskCluster(World, ports) EXCEPT !.mem.cluster =
                   [kind |-> "DaskCluster"] @@ @]
       IN /\ Commit(w)
          /\ call' = [MasterCall("DaskCluster", NoPath, AnInt(NoPort), w) EXCEPT !.n = 0]
  /\ UNCHANGED <<ex, gen>>

\* HyperoptCluster(group, dbpath=dbpath) returns or raises
MasterHyperoptCluster ==
  /\ NotConstructed
  /\ \E dbpath \in DbPaths, permitted \in BOOLEAN :
       LET w == HyperoptCluster(World, dbpath, permitted)
       IN /\ Commit(w)
          /\ call' = [MasterCall("HyperoptCluster", dbpath, AnInt(NoPort), w) EXCEPT !.n = 0]
  /\ UNCHANGED <<ex, gen>>

\* LocalMasterLauncher.start(ports) returns or raises; up is whether the
\* scheduler listens on its port after the timeout
MasterStartScheduler ==
  /\ ~NotConstructed
  /\ mem.cluster.kind = "DaskCluster"
  /\ call.n < MaxCalls
  /\ \E ports \in MasterPorts, up \in BOOLEAN :
       LET w == LocalMasterLauncher_start(World, ports, up)
       IN /\ Commit(w)
          /\ call' = MasterCall("LocalMasterLauncher.start", NoPath, ports, w)
  /\ UNCHANGED <<ex, gen>>

\* LocalMongoLauncher.start(ports) returns or raises
MasterStartMongo ==
  /\ ~NotConstructed
  /\ mem.cluster.kind = "HyperoptCluster"
  /\ call.n < MaxCalls
  /\ \E ports \in MasterPorts, works \in BOOLEAN :
       LET w == LocalMongoLauncher_start(World, ports, works)
       IN /\ Commit(w)
          /\ call' = MasterCall("LocalMongoLauncher.start", NoPath, ports, w)
  /\ UNCHANGED <<ex, gen>>

MasterNext ==
  \/ MasterDaskCluster
  \/ MasterHyperoptCluster
  \/ MasterStartScheduler
  \/ MasterStartMongo

SpecMaster == PortsInit /\ [][MasterNext]_vars

\* C35: a HyperoptCluster constructed with a dbpath has a Mongo launcher with
\* exactly that dbpath; one constructed without has the launcher use
\* <main directory>/mongodb, which then exists; so the launcher's dbpath is a
\* path whenever the master is started.
C35_DbPathGivenOrDefault ==
  /\ (call.op = "HyperoptCluster" /\ call.raised = NoError) =>
        IF call.dbpath # NoPath
        THEN mem.cluster.master_launcher.dbpath = call.dbpath
        ELSE /\ mem.cluster.master_launcher.dbpath = PathJoin(main_directory, s_mongodb)
             /\ PathJoin(main_directory, s_mongodb) \in fs.dirs
  /\ call.op = "LocalMongoLauncher.start" => mem.cluster.master_launcher.dbpath # NoPath

----------------------------------------------------------------------------
(* SpecNames: functions whose names may end in a digit are registered with  *)
(* run_function, one after the other, on a task.                            *)

MaxRegistrations == 11

\* function.__name__ of the functions the user registers
NamedFunctions == {<<"f">>, <<"f", "1">>}

\* task.run_function(function)
NamesRunFunction ==
  /\ mem.function_index < MaxRegistrations
  /\ \E f \in NamedFunctions : Commit(run_function(World, T1, f))
  /\ UNCHANGED <<ex, gen, call>>

NamesNext == NamesRunFunction

SpecNames == TaskInit /\ [][NamesNext]_vars

\* the remote path of the pickled wrapper of the k-th step of task t: where its
\* first sub-step sends the file
RemoteWrapperPath(t, k) ==
  mem.steps[mem.steps[mem.tasks[t].task_steps[k]].function_steps[1]].remote_path

\* the remote path of the pickled return of the k-th step of task t: from where
\* its fifth sub-step gets the file
RemoteReturnPath(t, k) ==
  mem.steps[mem.steps[mem.tasks[t].task_steps[k]].function_steps[5]].remote_path

\* C36: no two registrations with run_function, whatever the names of the
\* functions, are given the same remote wrapper file name or the same remote
\* return file name.
C36_PickleFileNamesUnique ==
  \A a \in AllFunctionPositions, b \in AllFunctionPositions :
    a # b => /\ RemoteWrapperPath(a[1], a[2]) # RemoteWrapperPath(b[1], b[2])
             /\ RemoteReturnPath(a[1], a[2]) # RemoteReturnPath(b[1], b[2])

\* a start method of a master launcher has just returned or raised
LauncherStarted == call.op \in {"LocalMasterLauncher.start", "LocalMongoLauncher.start"}

\* the port the launcher chose where the call got that far: the port given, or
\* an entry of the list given
MasterPortCandidates ==
  IF call.ports.isinstance_list THEN Range(call.ports.l) ELSE {call.ports.v}

\* C37: the port of a master launcher, which is cluster.master_port, is set
\* only once the launcher has found the master listening: after a start of the
\* Dask launcher or of the Mongo launcher that raises PortInUseError,
\* NoPortsLeftError or MasterStartError the port is still unset.
C37_MasterPortUnsetAfterFailedStart ==
  (/\ LauncherStarted
   /\ call.port_before = NoPort
   /\ call.raised.type \in {"PortInUseError", "NoPortsLeftError", "MasterStartError"}) =>
     mem.cluster.master_launcher.port = NoPort

\* C38: whenever LocalMasterLauncher.start or LocalMongoLauncher.start returns,
\* the master port it chose, a port given or one of a list, was free on the
\* manager before the master was launched: a port on which another process of
\* the manager listens is not taken for the master's.
C38_MasterPortWasFreeOnManager ==
  (LauncherStarted /\ call.raised = NoError) =>
     /\ mem.cluster.master_launcher.port \in MasterPortCandidates
     /\ mem.cluster.master_launcher.port \notin call.in_use_before[LOCALHOST].ports

----------------------------------------------------------------------------
(* SpecRedispatch: a task of one file transfer whose remote path names no   *)
(* directory is executed synchronously, itself or as a deep copy, on the    *)
(* runtimes of a group one after the other.                                 *)

MaxExecutions == 2

s_a == <<"a">>

\* the transfers: send_file(local, remote) with the remote path left out or in
\* the working dir, get_file(remote) with the bare name or in the working dir
UnqualifiedTransfers ==
  {[type |-> TYPE_SEND_FILE, remote_path |-> NoPath],
   [type |-> TYPE_SEND_FILE, remote_path |-> <<".", "/">> \o s_a],
   [type |-> TYPE_GET_FILE, remote_path |-> s_a],
   [type |-> TYPE_GET_FILE, remote_path |-> <<".", "/">> \o s_a]}

RedispatchInit ==
  /\ \E n \in 1..MaxRuntimes, transfer \in UnqualifiedTransfers :
       \E dirs \in [1..n -> UserDirs \cup {NoPath}] :
         LET w == Bind(Constructed(dirs), LAMBDA w1 :
                    IF transfer.type = TYPE_SEND_FILE
                    THEN send_file(w1, T1, <<"/", "m", "/">> \o s_a, transfer.remote_path)
                    ELSE get_file(w1, T1, transfer.remote_path, NoPath))
         IN /\ mem = w.mem /\ fs = w.fs /\ remote = w.remote /\ procs = w.procs
            /\ call = [op |-> "none", n |-> 0, r |-> 0, task |-> 0, raised |-> NoError,
                       given |-> transfer.remote_path]
  /\ ex = NoExecution
  /\ gen = NoGenerator

\* copy.deepcopy(t) returns
RedispatchDeepcopy ==
  /\ Len(mem.tasks) < 1 + MaxCopies
  /\ \E t \in 1..Len(mem.tasks) :
       LET w == deepcopy(World, t)
       IN /\ Commit(w)
          /\ call' = [call EXCEPT !.op = "RuntimeTask.__deepcopy__", !.task = t, !.r = 0,
                                  !.raised = NoError]
  /\ UNCHANGED <<ex, gen>>

\* runtime.execute_task(t, execute_async=False) returns
RedispatchExecuteTask ==
  /\ call.n < MaxExecutions
  /\ \E r \in Runtimes, t \in 1..Len(mem.tasks) :
       LET w == Runtime_execute_task(World, r, t, FALSE, FALSE, FALSE, 0)
       IN /\ Commit(w)
          /\ call' = [call EXCEPT !.op = "Runtime.execute_task", !.n = @ + 1, !.r = r,
                                  !.task = t, !.raised = w.raised]
  /\ UNCHANGED <<ex, gen>>

RedispatchNext ==
  \/ RedispatchDeepcopy
  \/ RedispatchExecuteTask

SpecRedispatch == RedispatchInit /\ [][RedispatchNext]_vars

\* the remote path used by the transfer of task t in its latest execution: the
\* path execute stored in the step before the transfer
UsedRemotePath(t) == mem.steps[mem.tasks[t].task_steps[1]].remote_path

\* C39: a SEND_FILE or GET_FILE step whose remote path names no directory,
\* executed on a runtime, transfers the file in the working dir of that
\* runtime, also when the task, or the task it was copied from, has been
\* executed on a runtime with another working dir before.
C39_PathResolvedOnEachRuntime ==
  (call.op = "Runtime.execute_task" /\ call.raised = NoError) =>
     UsedRemotePath(call.task) = PathJoin(mem.runtimes[call.r].working_dir, s_a)

----------------------------------------------------------------------------
(* SpecDispatchCleanup: a task that runs functions is dispatched to         *)
(* runtimes, a command of a synchronous execution may fail, and the         *)
(* runtimes are cleaned up.  call.dispatched keeps which task was handed to *)
(* which runtime, and the temp dir the task had then.                       *)

DispatchCleanupInit ==
  /\ \E n \in 1..MaxRuntimes, shape \in TaskShapes :
       LET w == Compose(Constructed([k \in 1..n |-> NoPath]), T1, shape, 1)
       IN mem = w.mem /\ fs = w.fs /\ remote = w.remote /\ procs = w.procs
  /\ ex = NoExecution
  /\ gen = NoGenerator
  /\ call = [op |-> "none", n |-> 0, r |-> 0, raised |-> NoError, dispatched |-> {}]

\* runtime.execute_task(t, execute_async) returns or raises
DispatchCleanupExecuteTask ==
  /\ call.n < MaxExecutions
  /\ \E r \in Runtimes, execute_async \in BOOLEAN, fail_at \in FailAt :
       /\ execute_async => fail_at = 0
       /\ LET w == Runtime_execute_task(World, r, T1, execute_async, FALSE, FALSE, fail_at)
          IN /\ Commit(w)
             /\ call' = [op |-> "Runtime.execute_task", n |-> call.n + 1, r |-> r,
                         raised |-> w.raised,
                         dispatched |-> call.dispatched
                            \cup {[r |-> r, task |-> T1, temp_dir |-> mem.tasks[T1].temp_dir]}]
  /\ UNCHANGED <<ex, gen>>

\* a child process runs its task to the end and exits
DispatchCleanupProcessRun ==
  /\ \E p \in 1..Len(procs), fail_at \in FailAt :
       /\ is_alive(World, p)
       /\ Commit(process_run(World, p, fail_at))
  /\ call' = [call EXCEPT !.op = "none", !.r = 0, !.raised = NoError]
  /\ UNCHANGED <<ex, gen>>

\* runtime.cleanup() returns or raises
DispatchCleanupRuntime ==
  /\ call.dispatched # {}
  /\ \E r \in Runtimes, ok \in BOOLEAN :
       LET w == Runtime_cleanup(World, r, ok)
       IN /\ Commit(w)
          /\ call' = [call EXCEPT !.op = "Runtime.cleanup", !.r = r, !.raised = w.raised]
  /\ UNCHANGED <<ex, gen>>

DispatchCleanupNext ==
  \/ DispatchCleanupExecuteTask
  \/ DispatchCleanupProcessRun
  \/ DispatchCleanupRuntime

SpecDispatchCleanup == DispatchCleanupInit /\ [][DispatchCleanupNext]_vars

\* C40: every task handed to Runtime.execute_task is in the task list of the
\* runtime afterwards, also when its synchronous execution raised
\* TaskExecutionError, and after Runtime.cleanup() has returned, the temp dir
\* on the manager of every task that was dispatched to the runtime is gone.
C40_DispatchedTasksAreCleanedUp ==
  /\ \A d \in call.dispatched : d.task \in Range(mem.runtimes[d.r].tasks)
  /\ (call.op = "Runtime.cleanup" /\ call.raised = NoError) =>
        \A d \in call.dispatched : d.r = call.r => d.temp_dir \notin fs.dirs

====
